---- MODULE Spec2Model ----
(***************************************************************************)
(* Frosty Spider: the game engine (src/src/lib/gameEngine.ts), its types   *)
(* (src/unnamed/part_011) and the undo/redo session reducer                *)
(* (src/src/contexts/GameContext.tsx).                                     *)
(*                                                                         *)
(* Arrays of the source are sequences; a source index k (0-based) is the   *)
(* sequence position k + 1.  The tableau is a function on the source's     *)
(* column numbers 0..9.  A value that the source may return as null is a   *)
(* sequence of length 0 (Null) or 1 (Some(x)).  A card id "card_n" is the  *)
(* number n.  Date.now() and Math.random() are inputs of the actions.      *)
(***************************************************************************)
EXTENDS Integers, Sequences, FiniteSets, TLC

VARIABLES
    state,      \* StateWithHistory: [current, history, future]
    trail,      \* what a MOVE/DEAL, UNDO, REDO run in progress started from and produced
    dealt,      \* suitCount of the deck the current game was dealt from
    layout,     \* the board's layout of tableau column 0, Null before it is computed
    origin      \* the state NEW_GAME dealt the current game in, Null for a restored game

vars == <<state, trail, dealt, layout, origin>>

Null == <<>>
Some(x) == <<x>>
Get(m) == m[1]

----------------------------------------------------------------------------
(* Bounds of the exploration *)

\* DEAL is dispatched only while fewer snapshots than this are on the undo stack
MaxHist == 2
\* MOVE is dispatched only while fewer snapshots than this are on the undo stack
MaxMoveHist == 1
\* Date.now() returns a value in 1..MaxTime
MaxTime == 1

Times == 1..MaxTime

----------------------------------------------------------------------------
(* types *)

RANKS == <<"A", "2", "3", "4", "5", "6", "7", "8", "9", "10", "J", "Q", "K">>
SUITS == <<"spades", "hearts", "diamonds", "clubs">>

RANK_VALUES ==
    ("A" :> 1) @@ ("2" :> 2) @@ ("3" :> 3) @@ ("4" :> 4) @@ ("5" :> 5) @@
    ("6" :> 6) @@ ("7" :> 7) @@ ("8" :> 8) @@ ("9" :> 9) @@ ("10" :> 10) @@
    ("J" :> 11) @@ ("Q" :> 12) @@ ("K" :> 13)

DEFAULT_SETTINGS ==
    [suitCount |-> 1, soundEnabled |-> TRUE, hapticEnabled |-> TRUE,
     immersiveEnabled |-> TRUE, animationsEnabled |-> TRUE,
     autoComplete |-> TRUE, showTimer |-> TRUE]

SettingsKeys == DOMAIN DEFAULT_SETTINGS

\* number of tableau columns
NumCols == 10
\* cards of a complete sequence, K down to A
RunLength == 13
\* completed sequences that win the game
WinCount == 8
\* cards dealt to the tableau by initializeGame
TableauCards == 54

Cols == 0..(NumCols - 1)

----------------------------------------------------------------------------
(* Deck construction and the initial deal *)

generateCardId(cardIdCounter) == cardIdCounter + 1

suitsToUse(suitCount) ==
    IF suitCount = 1 THEN <<"spades">>
    ELSE IF suitCount = 2 THEN <<"spades", "hearts">>
    ELSE SUITS

decksPerSuit(suitCount) ==
    IF suitCount = 1 THEN 8 ELSE IF suitCount = 2 THEN 4 ELSE 2

\* The rank loop of createDeck pushing its cards face-up
ranksOfSuit_faceUp(cardIdCounter, suit) ==
    [r \in 1..Len(RANKS) |->
        [id |-> generateCardId(cardIdCounter + r - 1), suit |-> suit,
         rank |-> RANKS[r], faceUp |-> TRUE]]

\* The rank loop of createDeck for one suit of one deck: 13 cards pushed, the
\* counter advanced by one for each
ranksOfSuit(cardIdCounter, suit) ==
    [r \in 1..Len(RANKS) |->
        [id |-> generateCardId(cardIdCounter + r - 1), suit |-> suit,
         rank |-> RANKS[r], faceUp |-> FALSE]]

\* The suit loop of createDeck for one deck, from position s of suitsToUse
RECURSIVE suitLoop(_, _, _, _)
suitLoop(cards, cardIdCounter, suitCount, s) ==
    IF s > Len(suitsToUse(suitCount)) THEN cards
    ELSE suitLoop(cards \o ranksOfSuit(cardIdCounter, suitsToUse(suitCount)[s]),
                  cardIdCounter + Len(RANKS), suitCount, s + 1)

\* The deck loop of createDeck; deck counts from 0
RECURSIVE deckLoop(_, _, _, _)
deckLoop(cards, cardIdCounter, suitCount, deck) ==
    IF deck >= decksPerSuit(suitCount) THEN cards
    ELSE deckLoop(suitLoop(cards, cardIdCounter, suitCount, 1),
                  cardIdCounter + Len(suitsToUse(suitCount)) * Len(RANKS),
                  suitCount, deck + 1)

\* initializeGame resets cardIdCounter to 0 before its only call of createDeck
createDeck(suitCount) == deckLoop(<<>>, 0, suitCount, 0)

\* Fisher-Yates: the iterations i = hi down to lo of the loop, in that order;
\* draws[i] is Math.floor(Math.random() * (i + 1)) of iteration i.  The range
\* is halved, and the upper half is evaluated before the lower half starts,
\* to keep the evaluation shallow.
RECURSIVE shuffleLoop(_, _, _, _)
RECURSIVE shuffleLower(_, _, _, _)
shuffleLoop(shuffled, hi, lo, draws) ==
    IF hi < lo THEN shuffled
    ELSE IF hi = lo
        THEN [shuffled EXCEPT ![hi + 1] = shuffled[draws[hi] + 1],
                              ![draws[hi] + 1] = shuffled[hi + 1]]
    ELSE shuffleLower(shuffleLoop(shuffled, hi, (hi + lo) \div 2 + 1, draws),
                      (hi + lo) \div 2, lo, draws)

shuffleLower(upper, mid, lo, draws) ==
    IF Len(upper) = 0 THEN upper ELSE shuffleLoop(upper, mid, lo, draws)

shuffleDeck(cards, draws) == shuffleLoop(cards, Len(cards) - 1, 1, draws)

RECURSIVE dealTableau(_, _, _, _)
dealTableau(tableau, deck, col, cardIndex) ==
    IF col >= NumCols THEN tableau
    ELSE LET cardCount == IF col < 4 THEN 6 ELSE 5
             column == [i \in 1..cardCount |->
                          [deck[cardIndex + i] EXCEPT !.faceUp = (i - 1 = cardCount - 1)]]
         IN  dealTableau([tableau EXCEPT ![col] = column], deck, col + 1,
                         cardIndex + cardCount)

\* Two outcomes of shuffleDeck, as the random numbers drawn at i = 1..103:
\* DrawsA is the shuffle of every game started in the session, DrawsB the
\* shuffle of a game saved by an earlier session
DrawsA == <<
    1, 0, 0, 1, 0, 5, 5, 3, 0, 9, 3, 4, 4, 14, 8, 8, 16, 16, 3, 13, 7, 7, 17, 6, 2, 11,
    26, 6, 29, 1, 10, 31, 31, 16, 26, 35, 37, 30, 34, 28, 34, 27, 29, 40, 39, 33, 36, 28, 39, 48, 32, 42,
    27, 54, 54, 53, 52, 57, 58, 56, 60, 37, 36, 61, 60, 56, 58, 57, 63, 64, 62, 72, 72, 63, 62, 59, 76, 58,
    64, 57, 56, 56, 74, 64, 82, 75, 76, 88, 75, 87, 74, 86, 83, 78, 91, 85, 84, 90, 83, 100, 100, 83, 82 >>

DrawsB == <<
    1, 1, 2, 0, 4, 6, 0, 1, 0, 0, 8, 5, 2, 0, 9, 4, 17, 4, 14, 15, 8, 17, 21, 16, 13, 20,
    20, 26, 15, 27, 27, 32, 29, 27, 30, 33, 31, 28, 26, 39, 30, 30, 40, 41, 42, 44, 42, 39, 46, 46, 43, 41,
    50, 54, 55, 56, 57, 58, 59, 60, 61, 62, 63, 64, 65, 66, 67, 68, 69, 70, 71, 72, 73, 74, 75, 76, 77, 78,
    79, 80, 81, 82, 83, 84, 85, 86, 87, 88, 89, 90, 91, 92, 93, 94, 95, 96, 97, 98, 99, 100, 101, 102, 103 >>

Shuffles == {DrawsA}

\* suitCount is 1 | 2 | 4
SuitCounts == {1, 2, 4}

\* shuffleDeck(createDeck(suitCount)) for every suit count and shuffle outcome,
\* computed once
ShuffledDecks ==
    { [suitCount |-> suitCount, draws |-> draws,
       deck |-> shuffleDeck(createDeck(suitCount), draws)] :
        suitCount \in SuitCounts, draws \in {DrawsA, DrawsB} }


\* initializeGame whose stock starts one card early, at deck.slice(53)
initializeGame_stockOverlap(settings, draws) ==
    LET deck == (CHOOSE d \in ShuffledDecks :
                    d.suitCount = settings.suitCount /\ d.draws = draws).deck
    IN  [tableau   |-> dealTableau([col \in Cols |-> <<>>], deck, 0, 0),
         stock     |-> [i \in 1..(Len(deck) - TableauCards + 1) |->
                          [deck[TableauCards - 1 + i] EXCEPT !.faceUp = FALSE]],
         completed |-> <<>>,
         moves     |-> 0,
         startTime |-> Null,
         isWon     |-> FALSE,
         settings  |-> settings]

initializeGame(settings, draws) ==
    LET deck == (CHOOSE d \in ShuffledDecks :
                    d.suitCount = settings.suitCount /\ d.draws = draws).deck
    IN  [tableau   |-> dealTableau([col \in Cols |-> <<>>], deck, 0, 0),
         stock     |-> [i \in 1..(Len(deck) - TableauCards) |->
                          [deck[TableauCards + i] EXCEPT !.faceUp = FALSE]],
         completed |-> <<>>,
         moves     |-> 0,
         startTime |-> Null,
         isWon     |-> FALSE,
         settings  |-> settings]

----------------------------------------------------------------------------
(* Sequence and move validation *)

isValidSequence(cards) ==
    IF Len(cards) = 0 THEN TRUE
    ELSE IF Len(cards) = 1 THEN cards[1].faceUp
    ELSE \A i \in 1..(Len(cards) - 1) :
            /\ cards[i].faceUp /\ cards[i + 1].faceUp
            /\ cards[i].suit = cards[i + 1].suit
            /\ RANK_VALUES[cards[i].rank] = RANK_VALUES[cards[i + 1].rank] + 1

\* canMoveToColumn without the comparison of ranks
canMoveToColumn_anyRank(cards, targetColumn) ==
    IF Len(cards) = 0 THEN FALSE
    ELSE cards[1].faceUp

\* canMoveToColumn that also asks the two cards at the seam to share a suit
canMoveToColumn_sameSuit(cards, targetColumn) ==
    IF Len(cards) = 0 THEN FALSE
    ELSE IF ~cards[1].faceUp THEN FALSE
    ELSE IF Len(targetColumn) = 0 THEN TRUE
    ELSE /\ RANK_VALUES[targetColumn[Len(targetColumn)].rank]
              = RANK_VALUES[cards[1].rank] + 1
         /\ targetColumn[Len(targetColumn)].suit = cards[1].suit

canMoveToColumn(cards, targetColumn) ==
    IF Len(cards) = 0 THEN FALSE
    ELSE IF ~cards[1].faceUp THEN FALSE
    ELSE IF Len(targetColumn) = 0 THEN TRUE
    ELSE RANK_VALUES[targetColumn[Len(targetColumn)].rank]
            = RANK_VALUES[cards[1].rank] + 1

getValidSequence(column, startIndex) ==
    IF startIndex < 0 \/ startIndex >= Len(column) THEN Null
    ELSE LET sequence == SubSeq(column, startIndex + 1, Len(column))
         IN  IF Len(sequence) = 0 THEN Null
             ELSE IF ~sequence[1].faceUp THEN Null
             ELSE IF ~isValidSequence(sequence) THEN Null
             ELSE Some(sequence)

\* The window loop of hasCompleteSequence, from source index i down to 0
RECURSIVE hasCompleteSequenceFrom(_, _)
hasCompleteSequenceFrom(column, i) ==
    IF i < 0 THEN Null
    ELSE LET sequence == SubSeq(column, i + 1, i + RunLength)
         IN  IF /\ \A k \in 1..RunLength : sequence[k].faceUp
                /\ sequence[1].rank = "K" /\ sequence[RunLength].rank = "A"
                /\ \A j \in 1..(RunLength - 1) :
                      /\ sequence[j].suit = sequence[1].suit
                      /\ RANK_VALUES[sequence[j].rank]
                            = RANK_VALUES[sequence[j + 1].rank] + 1
             THEN Some([start |-> i, cards |-> sequence])
             ELSE hasCompleteSequenceFrom(column, i - 1)

\* The window loop of hasCompleteSequence run upwards, from source index i to
\* the last window of the column
RECURSIVE hasCompleteSequenceUpFrom(_, _)
hasCompleteSequenceUpFrom(column, i) ==
    IF i > Len(column) - RunLength THEN Null
    ELSE LET sequence == SubSeq(column, i + 1, i + RunLength)
         IN  IF /\ \A k \in 1..RunLength : sequence[k].faceUp
                /\ sequence[1].rank = "K" /\ sequence[RunLength].rank = "A"
                /\ \A j \in 1..(RunLength - 1) :
                      /\ sequence[j].suit = sequence[1].suit
                      /\ RANK_VALUES[sequence[j].rank]
                            = RANK_VALUES[sequence[j + 1].rank] + 1
             THEN Some([start |-> i, cards |-> sequence])
             ELSE hasCompleteSequenceUpFrom(column, i + 1)

\* hasCompleteSequence whose loop starts at index 0
hasCompleteSequence_fromStart(column) ==
    IF Len(column) < RunLength THEN Null
    ELSE hasCompleteSequenceUpFrom(column, 0)

\* hasCompleteSequence that gives up on a column of exactly 13 cards
hasCompleteSequence_offByOne(column) ==
    IF Len(column) <= RunLength THEN Null
    ELSE hasCompleteSequenceFrom(column, Len(column) - RunLength)

hasCompleteSequence(column) ==
    IF Len(column) < RunLength THEN Null
    ELSE hasCompleteSequenceFrom(column, Len(column) - RunLength)

----------------------------------------------------------------------------
(* Completion sweep, move and deal *)

\* flipTop that turns every card of the column face-up
flipTop_all(column) == [k \in 1..Len(column) |-> [column[k] EXCEPT !.faceUp = TRUE]]

\* flipTop that turns the top card over whichever side is up
flipTop_toggle(column) ==
    IF Len(column) > 0
    THEN [column EXCEPT ![Len(column)] = [@ EXCEPT !.faceUp = ~@]]
    ELSE column

\* flipTop that leaves the top card as it is
flipTop_asIs(column) == column

\* The card at the top of a column turned face-up if it is face-down
flipTop(column) ==
    IF Len(column) > 0 /\ ~column[Len(column)].faceUp
    THEN [column EXCEPT ![Len(column)] = [@ EXCEPT !.faceUp = TRUE]]
    ELSE column

\* A splice that takes nothing out of the column
spliceOut_nothing(column, start, count) == column

\* A splice that leaves the last of the count cards in the column
spliceOut_oneShort(column, start, count) ==
    SubSeq(column, 1, start) \o SubSeq(column, start + count, Len(column))

\* column.splice(start, count): what is left of the column
spliceOut(column, start, count) ==
    SubSeq(column, 1, start) \o SubSeq(column, start + count + 1, Len(column))

\* The column loop of checkAndRemoveCompleteSequences
RECURSIVE sweepLoop(_, _, _, _)
sweepLoop(newTableau, newCompleted, changed, col) ==
    IF col >= NumCols
    THEN [tableau |-> newTableau, completed |-> newCompleted, changed |-> changed]
    ELSE LET complete == hasCompleteSequence(newTableau[col])
         IN  IF complete # Null
             THEN sweepLoop(
                    [newTableau EXCEPT ![col] =
                        flipTop(spliceOut(@, Get(complete).start, RunLength))],
                    Append(newCompleted,
                           SubSeq(newTableau[col], Get(complete).start + 1,
                                  Get(complete).start + RunLength)),
                    TRUE, col + 1)
             ELSE sweepLoop(newTableau, newCompleted, changed, col + 1)

\* A sweep that declares the game won at the first completed sequence
sweepResult_wonAtOnce(s, r) ==
    IF ~r.changed THEN s
    ELSE [s EXCEPT !.tableau = r.tableau,
                   !.completed = r.completed,
                   !.isWon = (Len(r.completed) >= 1)]

\* What checkAndRemoveCompleteSequences returns when it counts the removal of
\* runs as a move of its own
sweepResult_countsMove(s, r) ==
    IF ~r.changed THEN s
    ELSE [s EXCEPT !.tableau = r.tableau,
                   !.completed = r.completed,
                   !.moves = s.moves + 1,
                   !.isWon = (Len(r.completed) = WinCount)]

\* What checkAndRemoveCompleteSequences returns when it records the runs and
\* leaves them in the tableau
sweepResult_keepsTableau(s, r) ==
    IF ~r.changed THEN s
    ELSE [s EXCEPT !.completed = r.completed,
                   !.isWon = (Len(r.completed) = WinCount)]

\* A sweep that declares the game won one completed sequence early
sweepResult_wonAtSeven(s, r) ==
    IF ~r.changed THEN s
    ELSE [s EXCEPT !.tableau = r.tableau,
                   !.completed = r.completed,
                   !.isWon = (Len(r.completed) >= WinCount - 1)]

\* A sweep that takes the runs out of the tableau and does not record them
sweepResult_forgetsRun(s, r) ==
    IF ~r.changed THEN s
    ELSE [s EXCEPT !.tableau = r.tableau,
                   !.isWon = (Len(r.completed) = WinCount)]

\* What checkAndRemoveCompleteSequences returns once its loop has ended with r
sweepResult(s, r) ==
    IF ~r.changed THEN s
    ELSE [s EXCEPT !.tableau = r.tableau,
                   !.completed = r.completed,
                   !.isWon = (Len(r.completed) = WinCount)]

checkAndRemoveCompleteSequences(s) ==
    sweepResult(s, sweepLoop(s.tableau, s.completed, FALSE, 0))

\* state.startTime || Date.now()
startTimeOr(startTime, now) == IF startTime # Null THEN startTime ELSE Some(now)

\* executeMove up to the completion sweep that also writes the default settings
applyMove_defaultSettings(s, fromCol, cardIndex, toCol) ==
    LET movedCards == SubSeq(s.tableau[fromCol], cardIndex + 1, Len(s.tableau[fromCol]))
        newTableau == [s.tableau EXCEPT
                          ![fromCol] = flipTop(SubSeq(@, 1, cardIndex)),
                          ![toCol] = @ \o movedCards]
    IN  [s EXCEPT !.tableau = newTableau, !.moves = s.moves + 1,
                  !.settings = DEFAULT_SETTINGS]

\* executeMove up to the completion sweep, for a move that passed the checks
applyMove(s, fromCol, cardIndex, toCol) ==
    LET movedCards == SubSeq(s.tableau[fromCol], cardIndex + 1, Len(s.tableau[fromCol]))
        newTableau == [s.tableau EXCEPT
                          ![fromCol] = flipTop(SubSeq(@, 1, cardIndex)),
                          ![toCol] = @ \o movedCards]
    IN  [s EXCEPT !.tableau = newTableau, !.moves = s.moves + 1]

executeMove(s, fromCol, cardIndex, toCol, now) ==
    IF fromCol = toCol THEN Null
    ELSE LET sequence == getValidSequence(s.tableau[fromCol], cardIndex)
         IN  IF sequence = Null THEN Null
             ELSE IF ~canMoveToColumn(Get(sequence), s.tableau[toCol]) THEN Null
             ELSE Some(checkAndRemoveCompleteSequences(
                        [applyMove(s, fromCol, cardIndex, toCol) EXCEPT
                            !.startTime = startTimeOr(s.startTime, now)]))

\* The column loop of dealFromStock: newStock.shift() onto each column
RECURSIVE dealLoop(_, _, _)
dealLoop(newTableau, newStock, col) ==
    IF col >= NumCols THEN [tableau |-> newTableau, stock |-> newStock]
    ELSE IF Len(newStock) > 0
        THEN dealLoop([newTableau EXCEPT ![col] =
                          Append(@, [Head(newStock) EXCEPT !.faceUp = TRUE])],
                      Tail(newStock), col + 1)
    ELSE dealLoop(newTableau, newStock, col + 1)

\* A deal that takes the cards from the end of the stock (pop for shift)
applyDeal_fromEnd(s) ==
    [s EXCEPT !.tableau = [col \in Cols |->
                              Append(s.tableau[col],
                                     [s.stock[Len(s.stock) - col] EXCEPT !.faceUp = TRUE])],
              !.stock = SubSeq(s.stock, 1, Len(s.stock) - NumCols),
              !.moves = s.moves + 1]

\* A deal that leaves the dealt cards face-down
applyDeal_faceDown(s) ==
    [s EXCEPT !.tableau = [col \in Cols |-> Append(s.tableau[col], s.stock[col + 1])],
              !.stock = SubSeq(s.stock, NumCols + 1, Len(s.stock)),
              !.moves = s.moves + 1]

\* A deal that leaves the dealt cards in the stock as well
applyDeal_keepsStock(s) ==
    LET r == dealLoop(s.tableau, s.stock, 0)
    IN  [s EXCEPT !.tableau = r.tableau, !.moves = s.moves + 1]

\* dealFromStock up to the completion sweep, for a deal that passed the checks
applyDeal(s) ==
    LET r == dealLoop(s.tableau, s.stock, 0)
    IN  [s EXCEPT !.tableau = r.tableau, !.stock = r.stock, !.moves = s.moves + 1]

\* dealFromStock without the check for an empty column
dealFromStock_intoEmptyColumn(s, now) ==
    IF Len(s.stock) = 0 THEN Null
    ELSE Some(checkAndRemoveCompleteSequences(
                [applyDeal(s) EXCEPT !.startTime = startTimeOr(s.startTime, now)]))

dealFromStock(s, now) ==
    IF Len(s.stock) = 0 THEN Null
    ELSE IF \E col \in Cols : Len(s.tableau[col]) = 0 THEN Null
    ELSE Some(checkAndRemoveCompleteSequences(
                [applyDeal(s) EXCEPT !.startTime = startTimeOr(s.startTime, now)]))

----------------------------------------------------------------------------
(* Auto-move and stuck detection *)

\* The score findBestMove gives a legal target column
moveScore(movingCard, targetColumn) ==
    IF Len(targetColumn) > 0
    THEN (IF targetColumn[Len(targetColumn)].suit = movingCard.suit THEN 100 ELSE 0)
         + Len(targetColumn)
    ELSE IF movingCard.rank = "K" THEN 50 ELSE 1

\* The column loop of findBestMove with score >= bestScore for score > bestScore
RECURSIVE bestMoveLoop_lastTie(_, _, _, _, _, _)
bestMoveLoop_lastTie(s, fromCol, sequence, bestCol, bestScore, col) ==
    IF col >= NumCols THEN bestCol
    ELSE IF col = fromCol \/ ~canMoveToColumn(sequence, s.tableau[col])
    THEN bestMoveLoop_lastTie(s, fromCol, sequence, bestCol, bestScore, col + 1)
    ELSE IF moveScore(sequence[1], s.tableau[col]) >= bestScore
    THEN bestMoveLoop_lastTie(s, fromCol, sequence, Some(col),
                              moveScore(sequence[1], s.tableau[col]), col + 1)
    ELSE bestMoveLoop_lastTie(s, fromCol, sequence, bestCol, bestScore, col + 1)

\* The column loop of findBestMove, from column col on
RECURSIVE bestMoveLoop(_, _, _, _, _, _)
bestMoveLoop(s, fromCol, sequence, bestCol, bestScore, col) ==
    IF col >= NumCols THEN bestCol
    ELSE IF col = fromCol \/ ~canMoveToColumn(sequence, s.tableau[col])
    THEN bestMoveLoop(s, fromCol, sequence, bestCol, bestScore, col + 1)
    ELSE IF moveScore(sequence[1], s.tableau[col]) > bestScore
    THEN bestMoveLoop(s, fromCol, sequence, Some(col),
                      moveScore(sequence[1], s.tableau[col]), col + 1)
    ELSE bestMoveLoop(s, fromCol, sequence, bestCol, bestScore, col + 1)

\* findBestMove whose loop keeps the last of the columns of equal score
findBestMove_lastTie(s, fromCol, cardIndex) ==
    LET sequence == getValidSequence(s.tableau[fromCol], cardIndex)
    IN  IF sequence = Null THEN Null
        ELSE bestMoveLoop_lastTie(s, fromCol, Get(sequence), Null, -1, 0)

\* findBestMove that picks the next column without asking canMoveToColumn
findBestMove_nextColumn(s, fromCol, cardIndex) ==
    LET sequence == getValidSequence(s.tableau[fromCol], cardIndex)
    IN  IF sequence = Null THEN Null
        ELSE Some((fromCol + 1) % NumCols)

findBestMove(s, fromCol, cardIndex) ==
    LET sequence == getValidSequence(s.tableau[fromCol], cardIndex)
    IN  IF sequence = Null THEN Null
        ELSE bestMoveLoop(s, fromCol, Get(sequence), Null, -1, 0)

\* isGameStuck that stops after the question whether a deal is possible
isGameStuck_dealOnly(s) ==
    ~(Len(s.stock) > 0 /\ ~(\E col \in Cols : Len(s.tableau[col]) = 0))

isGameStuck(s) ==
    IF Len(s.stock) > 0 /\ ~(\E col \in Cols : Len(s.tableau[col]) = 0) THEN FALSE
    ELSE ~(\E fromCol \in Cols :
            \E cardIndex \in 0..(Len(s.tableau[fromCol]) - 1) :
                /\ s.tableau[fromCol][cardIndex + 1].faceUp
                /\ getValidSequence(s.tableau[fromCol], cardIndex) # Null
                /\ \E toCol \in Cols \ {fromCol} :
                      canMoveToColumn(Get(getValidSequence(s.tableau[fromCol], cardIndex)),
                                      s.tableau[toCol]))

\* { ...card }
cloneCard(card) ==
    [id |-> card.id, suit |-> card.suit, rank |-> card.rank, faceUp |-> card.faceUp]

\* cards.map(card => ({ ...card }))
cloneCards(cards) == [i \in 1..Len(cards) |-> cloneCard(cards[i])]

\* seqs.map(seq => seq.map(card => ({ ...card })))
cloneSeqs(seqs) == [k \in 1..Len(seqs) |-> cloneCards(seqs[k])]

\* { ...state.settings }
cloneSettings(settings) == [k \in SettingsKeys |-> settings[k]]

cloneGameState(s) ==
    [tableau   |-> [col \in Cols |-> cloneCards(s.tableau[col])],
     stock     |-> cloneCards(s.stock),
     completed |-> cloneSeqs(s.completed),
     moves     |-> s.moves,
     startTime |-> s.startTime,
     isWon     |-> s.isWon,
     settings  |-> cloneSettings(s.settings)]

----------------------------------------------------------------------------
(* The session reducer *)

mergeSettings(settings, patch) ==
    [k \in SettingsKeys |-> IF k \in DOMAIN patch THEN patch[k] ELSE settings[k]]

\* case 'MOVE' with the redo stack kept
moveCase_keepsFuture(st, newState) ==
    IF newState = Null THEN st
    ELSE [current |-> Get(newState),
          history |-> Append(st.history, cloneGameState(st.current)),
          future  |-> st.future]

\* case 'MOVE' whose early return drops the redo stack
moveCase_rejectDropsFuture(st, newState) ==
    IF newState = Null THEN [st EXCEPT !.future = <<>>]
    ELSE [current |-> Get(newState),
          history |-> Append(st.history, cloneGameState(st.current)),
          future  |-> <<>>]

\* case 'MOVE', after executeMove has returned newState
moveCase(st, newState) ==
    IF newState = Null THEN st
    ELSE [current |-> Get(newState),
          history |-> Append(st.history, cloneGameState(st.current)),
          future  |-> <<>>]

\* case 'DEAL' that puts the snapshot at the front of the undo stack
dealCase_pushesFront(st, newState) ==
    IF newState = Null THEN st
    ELSE [current |-> Get(newState),
          history |-> <<cloneGameState(st.current)>> \o st.history,
          future  |-> <<>>]

\* case 'DEAL' that puts the state the deal produced on the undo stack
dealCase_snapshotAfter(st, newState) ==
    IF newState = Null THEN st
    ELSE [current |-> Get(newState),
          history |-> Append(st.history, cloneGameState(Get(newState))),
          future  |-> <<>>]

\* case 'DEAL', after dealFromStock has returned newState
dealCase(st, newState) ==
    IF newState = Null THEN st
    ELSE [current |-> Get(newState),
          history |-> Append(st.history, cloneGameState(st.current)),
          future  |-> <<>>]

\* case 'UNDO' that restores the snapshot with the move counter of the
\* state it leaves
undoCase_keepsMoves(st) ==
    IF Len(st.history) = 0 THEN st
    ELSE [current |-> [st.history[Len(st.history)] EXCEPT !.moves = st.current.moves],
          history |-> SubSeq(st.history, 1, Len(st.history) - 1),
          future  |-> <<cloneGameState(st.current)>> \o st.future]

\* case 'UNDO' that keeps only the state it leaves on the redo stack
undoCase_replacesFuture(st) ==
    IF Len(st.history) = 0 THEN st
    ELSE [current |-> st.history[Len(st.history)],
          history |-> SubSeq(st.history, 1, Len(st.history) - 1),
          future  |-> <<cloneGameState(st.current)>>]

\* case 'UNDO'
undoCase(st) ==
    IF Len(st.history) = 0 THEN st
    ELSE [current |-> st.history[Len(st.history)],
          history |-> SubSeq(st.history, 1, Len(st.history) - 1),
          future  |-> <<cloneGameState(st.current)>> \o st.future]

\* case 'REDO' that does not put the state it leaves on the undo stack
redoCase_noSnapshot(st) ==
    IF Len(st.future) = 0 THEN st
    ELSE [current |-> st.future[1],
          history |-> st.history,
          future  |-> SubSeq(st.future, 2, Len(st.future))]

\* case 'REDO' that puts the state it goes to on the undo stack
redoCase_pushesNext(st) ==
    IF Len(st.future) = 0 THEN st
    ELSE [current |-> st.future[1],
          history |-> Append(st.history, cloneGameState(st.future[1])),
          future  |-> SubSeq(st.future, 2, Len(st.future))]

\* case 'REDO'
redoCase(st) ==
    IF Len(st.future) = 0 THEN st
    ELSE [current |-> st.future[1],
          history |-> Append(st.history, cloneGameState(st.current)),
          future  |-> SubSeq(st.future, 2, Len(st.future))]

\* case 'NEW_GAME' that keeps the undo stack
newGameCase_keepsHistory(st, action, draws) ==
    [current |-> initializeGame(IF action.settings # Null THEN Get(action.settings)
                                ELSE st.current.settings, draws),
     history |-> st.history,
     future  |-> <<>>]

\* case 'NEW_GAME'
newGameCase(st, action, draws) ==
    [current |-> initializeGame(IF action.settings # Null THEN Get(action.settings)
                                ELSE st.current.settings, draws),
     history |-> <<>>,
     future  |-> <<>>]

\* case 'UPDATE_SETTINGS' that records the change like a move: the current
\* state goes on the undo stack and the redo stack is dropped
updateSettingsCase_recorded(st, action) ==
    [current |-> [st.current EXCEPT !.settings = mergeSettings(@, action.settings)],
     history |-> Append(st.history, cloneGameState(st.current)),
     future  |-> <<>>]

\* case 'UPDATE_SETTINGS'
updateSettingsCase(st, action) ==
    [st EXCEPT !.current.settings = mergeSettings(@, action.settings)]

\* reducer(state, action); now is Date.now() and draws the shuffle's random
\* numbers, read by the cases that call the engine
reducer(st, action, now, draws) ==
    CASE action.type = "SET_STATE" -> [st EXCEPT !.current = action.state]
      [] action.type = "MOVE" ->
            moveCase(st, executeMove(st.current, action.fromCol,
                                     action.cardIndex, action.toCol, now))
      [] action.type = "DEAL" -> dealCase(st, dealFromStock(st.current, now))
      [] action.type = "UNDO" -> undoCase(st)
      [] action.type = "REDO" -> redoCase(st)
      [] action.type = "NEW_GAME" -> newGameCase(st, action, draws)
      [] action.type = "UPDATE_SETTINGS" -> updateSettingsCase(st, action)
      [] OTHER -> st

createPlaceholderState ==
    [tableau   |-> [col \in Cols |-> <<>>],
     stock     |-> <<>>,
     completed |-> <<>>,
     moves     |-> 0,
     startTime |-> Null,
     isWon     |-> FALSE,
     settings  |-> DEFAULT_SETTINGS]

\* useReducer's initial value in GameProvider
InitialSession ==
    [current |-> createPlaceholderState, history |-> <<>>, future |-> <<>>]

----------------------------------------------------------------------------
(* Shuffles and saved games the exploration starts from *)

\* A game played on each shuffle: <<>> is a deal, <<fromCol, cardIndex, toCol>> a move
ScriptA == <<
    <<>>, <<>>, <<>>, <<>>, <<2, 9, 0>>, <<3, 9, 1>>, <<4, 8, 0>>, <<5, 8, 1>>,
    <<6, 8, 0>>, <<7, 8, 1>>, <<8, 8, 0>>, <<9, 8, 1>>, <<2, 8, 0>>, <<3, 8, 1>>, <<4, 7, 0>>, <<5, 7, 1>>,
    <<6, 7, 0>>, <<7, 7, 1>>, <<8, 7, 0>>, <<9, 7, 1>>, <<2, 7, 0>>, <<3, 7, 1>>, <<4, 6, 0>>, <<5, 6, 1>>,
    <<6, 6, 0>>, <<7, 6, 1>>, <<>>, <<0, 8, 4>>, <<1, 8, 4>>, <<0, 7, 4>>, <<1, 7, 4>>, <<2, 7, 4>>,
    <<3, 7, 4>>, <<8, 7, 4>>, <<9, 7, 4>>, <<0, 6, 4>>, <<1, 6, 4>>, <<2, 6, 4>>, <<3, 6, 4>>, <<5, 6, 0>>,
    <<6, 6, 0>>, <<7, 6, 0>>, <<8, 6, 0>>, <<9, 6, 0>>, <<1, 5, 0>>, <<2, 5, 0>>, <<3, 5, 0>>, <<4, 5, 0>>,
    <<5, 5, 0>>, <<6, 5, 0>>, <<7, 5, 0>>, <<8, 5, 0>>, <<9, 5, 0>>, <<1, 4, 0>>, <<2, 4, 0>>, <<3, 4, 0>>,
    <<4, 4, 0>>, <<5, 4, 0>>, <<6, 4, 0>>, <<7, 4, 0>>, <<8, 4, 0>>, <<9, 4, 0>>, <<1, 3, 0>>, <<0, 3, 1>>,
    <<2, 3, 1>>, <<3, 3, 1>>, <<4, 3, 1>>, <<5, 3, 1>>, <<6, 3, 1>>, <<7, 3, 1>>, <<8, 3, 1>>, <<9, 3, 1>>,
    <<0, 2, 1>>, <<2, 2, 1>>, <<3, 2, 1>>, <<4, 2, 0>>, <<5, 2, 0>>, <<6, 2, 0>>, <<7, 2, 0>>, <<8, 2, 0>>,
    <<9, 2, 0>>, <<1, 1, 0>>, <<2, 1, 0>>, <<3, 1, 0>>, <<4, 1, 0>>, <<5, 1, 0>>, <<6, 1, 0>>, <<7, 1, 0>>,
    <<8, 1, 0>>, <<9, 1, 0>>, <<1, 0, 0>>, <<2, 0, 0>>, <<3, 0, 0>>, <<4, 0, 0>>, <<5, 0, 0>>, <<6, 0, 0>>,
    <<7, 0, 0>>, <<8, 0, 0>>, <<9, 0, 0>> >>

ScriptB == <<
    <<0, 5, 4>>, <<1, 5, 4>>, <<2, 5, 4>>, <<3, 5, 4>>, <<0, 4, 4>>, <<1, 4, 4>>, <<2, 4, 4>>, <<3, 4, 4>>,
    <<5, 4, 4>>, <<6, 4, 4>>, <<7, 4, 4>>, <<8, 4, 4>>, <<9, 4, 0>>, <<1, 3, 0>>, <<2, 3, 0>>, <<3, 3, 0>>,
    <<4, 3, 0>>, <<5, 3, 0>>, <<6, 3, 0>>, <<7, 3, 0>>, <<8, 3, 0>>, <<9, 3, 0>>, <<1, 2, 0>>, <<2, 2, 0>>,
    <<0, 2, 1>>, <<3, 2, 1>>, <<4, 2, 1>>, <<5, 2, 1>>, <<6, 2, 1>>, <<7, 2, 1>>, <<8, 2, 1>>, <<9, 2, 1>>,
    <<0, 1, 1>>, <<2, 1, 1>>, <<3, 1, 1>>, <<4, 1, 1>>, <<5, 1, 0>>, <<6, 1, 0>>, <<7, 1, 0>>, <<8, 1, 0>>,
    <<9, 1, 0>>, <<1, 0, 0>>, <<2, 0, 0>>, <<3, 0, 0>>, <<4, 0, 0>>, <<5, 0, 0>>, <<6, 0, 0>>, <<7, 0, 0>> >>

\* A four-suit game on the shuffle of game A, played into a dead end
ScriptC == <<
    <<>>, <<>>, <<>>, <<>>, <<>>, <<5, 9, 4>>, <<7, 9, 5>>, <<3, 10, 2>>,
    <<7, 8, 6>>, <<8, 9, 2>>, <<8, 8, 6>>, <<9, 9, 7>>, <<8, 7, 2>>, <<9, 8, 5>> >>

SettingsA == [DEFAULT_SETTINGS EXCEPT !.suitCount = 2]
SettingsB == DEFAULT_SETTINGS
SettingsC == [DEFAULT_SETTINGS EXCEPT !.suitCount = 4]

\* The game state after steps lo..hi of a script, each step applied as the
\* reducer's MOVE and DEAL cases apply it (a rejected step changes nothing).
\* The range is halved, the first half evaluated before the second starts.
RECURSIVE playedFrom(_, _, _, _)
RECURSIVE playedRest(_, _, _, _)
playedFrom(s, script, lo, hi) ==
    IF hi < lo THEN s
    ELSE IF hi = lo
        THEN LET step == script[lo]
                 r == IF step = <<>> THEN dealFromStock(s, 1)
                      ELSE executeMove(s, step[1], step[2], step[3], 1)
             IN  IF r = Null THEN s ELSE Get(r)
    ELSE playedRest(playedFrom(s, script, lo, (hi + lo) \div 2), script,
                    (hi + lo) \div 2 + 1, hi)

playedRest(first, script, lo, hi) ==
    IF first.moves < 0 THEN first ELSE playedFrom(first, script, lo, hi)

played(s, script, n) == playedFrom(s, script, 1, n)

\* Saved games found in localStorage on mount: positions of game A before the
\* deal that completes two runs and before a move that completes a run; a
\* position of game B with an empty column and a full stock; the position of
\* game C one move before no deal and no move is left
SavedGames ==
    { played(initializeGame(SettingsA, DrawsA), ScriptA, 26),
      played(initializeGame(SettingsA, DrawsA), ScriptA, 74),
      played(initializeGame(SettingsB, DrawsB), ScriptB, 42),
      played(initializeGame(SettingsC, DrawsA), ScriptC, 13) }

\* The saved game of an endgame: the position of game A before the winning move
EndgameGames ==
    { played(initializeGame(SettingsA, DrawsA), ScriptA, 98) }

\* The dispatch of GameProvider's mount effect: SET_STATE of the saved game
\* with the saved settings laid over the defaults, or NEW_GAME
MountActions ==
    { [type |-> "SET_STATE",
       state |-> [g EXCEPT !.settings = mergeSettings(DEFAULT_SETTINGS, g.settings)]] :
        g \in SavedGames }
    \cup
    { [type |-> "NEW_GAME", settings |-> Some(SettingsA)],
      [type |-> "NEW_GAME", settings |-> Null] }

\* The saved game of a game played without a deal: the position of game B
\* before the move that completes its fourth run
UndealtGames ==
    { played(initializeGame(SettingsB, DrawsB), ScriptB, 47) }

\* The mount effect's SET_STATE of the saved game played without a deal
UndealtMountActions ==
    { [type |-> "SET_STATE",
       state |-> [g EXCEPT !.settings = mergeSettings(DEFAULT_SETTINGS, g.settings)]] :
        g \in UndealtGames }

\* The mount effect's SET_STATE of the saved endgame
EndgameMountActions ==
    { [type |-> "SET_STATE",
       state |-> [g EXCEPT !.settings = mergeSettings(DEFAULT_SETTINGS, g.settings)]] :
        g \in EndgameGames }

\* Partial<GameSettings> values passed to updateSettings
SettingsPatches ==
    { ("suitCount" :> 4) @@ ("soundEnabled" :> FALSE) }

\* settings passed to newGame; Null is newGame()
NewGameSettings == {Null, Some(SettingsA)}

----------------------------------------------------------------------------
(* The session as a state machine *)

\* The trail records the run of dispatches in progress. phase 1: a MOVE or a
\* DEAL was accepted; 2: and undone; 3: and redone; 4: UPDATE_SETTINGS was
\* dispatched and only UNDO and REDO have followed it; 5: NEW_GAME was
\* dispatched; 6: the reducer took the early return of a MOVE or a DEAL, and
\* before is the whole session it was dispatched in; phase 0: none of
\* these. undoable and redoable are the lengths of the two stacks when the
\* action was dispatched, and returned is what moveCards, autoMove or deal
\* returned after the dispatch
NoTrail ==
    [phase |-> 0, action |-> Null, undoable |-> 0, redoable |-> 0,
     before |-> Null, after |-> Null, returned |-> Null]

Init ==
    \E action \in MountActions, draws \in Shuffles :
        /\ state = reducer(InitialSession, action, 1, draws)
        /\ trail = NoTrail
        /\ dealt = state.current.settings.suitCount
        /\ layout = Null
        /\ origin = IF action.type = "NEW_GAME" THEN Some(state.current) ELSE Null

\* The session after the mount effect has restored the saved endgame
EndgameInit ==
    \E action \in EndgameMountActions, draws \in Shuffles :
        /\ state = reducer(InitialSession, action, 1, draws)
        /\ trail = NoTrail
        /\ dealt = state.current.settings.suitCount
        /\ layout = Null
        /\ origin = Null

\* The session after the mount effect has restored the game played without a
\* deal
UndealtInit ==
    \E action \in UndealtMountActions, draws \in Shuffles :
        /\ state = reducer(InitialSession, action, 1, draws)
        /\ trail = NoTrail
        /\ dealt = state.current.settings.suitCount
        /\ layout = Null
        /\ origin = Null

\* Whether the reducer's case for the action takes its early return
Rejected(st, action) ==
    CASE action.type = "MOVE" ->
            executeMove(st.current, action.fromCol, action.cardIndex,
                        action.toCol, 1) = Null
      [] action.type = "DEAL" -> dealFromStock(st.current, 1) = Null
      [] action.type = "UNDO" -> Len(st.history) = 0
      [] action.type = "REDO" -> Len(st.future) = 0
      [] OTHER -> FALSE

\* The session and the trail after dispatch(action) has produced next
Dispatched(action, next) ==
    /\ state' = next
    /\ trail' =
          IF action.type \in {"MOVE", "DEAL"} /\ Rejected(state, action)
          THEN [phase |-> 6, action |-> Some([type |-> action.type]),
                undoable |-> Len(state.history), redoable |-> Len(state.future),
                before |-> Some(state), after |-> Null, returned |-> Some(TRUE)]
          ELSE IF action.type \in {"MOVE", "DEAL"}
          THEN [phase |-> 1, action |-> Some(action),
                undoable |-> Len(state.history), redoable |-> Len(state.future),
                before |-> Some(state.current), after |-> Some(next),
                returned |-> Some(TRUE)]
          ELSE IF action.type = "UNDO" /\ ~Rejected(state, action) /\ trail.phase = 1
          THEN [trail EXCEPT !.phase = 2]
          ELSE IF action.type = "REDO" /\ ~Rejected(state, action) /\ trail.phase = 2
          THEN [trail EXCEPT !.phase = 3]
          ELSE IF action.type = "UPDATE_SETTINGS"
          THEN [phase |-> 4, action |-> Some(action), undoable |-> 0,
                redoable |-> 0, before |-> Null, after |-> Some(next),
                returned |-> Null]
          ELSE IF action.type = "NEW_GAME"
          THEN [phase |-> 5, action |-> Some(action),
                undoable |-> Len(state.history), redoable |-> Len(state.future),
                before |-> Null, after |-> Null, returned |-> Null]
          ELSE IF action.type \in {"UNDO", "REDO"} /\ trail.phase = 4
          THEN trail
          ELSE NoTrail
    /\ dealt' = IF action.type = "NEW_GAME"
                THEN next.current.settings.suitCount ELSE dealt
    /\ layout' = layout
    /\ origin' = IF action.type = "NEW_GAME" THEN Some(next.current) ELSE origin

\* dispatch(action)
Dispatch(action, now, draws) ==
    Dispatched(action, reducer(state, action, now, draws))

\* Date.now() is read only while startTime is null
Clock == IF state.current.startTime = Null THEN Times ELSE {1}

\* moveCards(fromCol, cardIndex, toCol).  Every MOVE the engine accepts is
\* dispatched; the reducer leaves on the same early return for every MOVE the
\* engine rejects, and of those the ones of a column onto itself from index -1
\* are dispatched.
Move ==
    /\ Len(state.history) < MaxMoveHist
    /\ \E fromCol \in Cols, toCol \in Cols, now \in Clock :
         \E cardIndex \in (-1)..Len(state.current.tableau[fromCol]) :
            /\ \/ executeMove(state.current, fromCol, cardIndex, toCol, now) # Null
               \/ fromCol = toCol /\ cardIndex = -1
            /\ Dispatch([type |-> "MOVE", fromCol |-> fromCol,
                         cardIndex |-> cardIndex, toCol |-> toCol], now, <<>>)

\* autoMove(fromCol, cardIndex): the MOVE to the column findBestMove picks
AutoMove ==
    /\ Len(state.history) < MaxMoveHist
    /\ \E fromCol \in Cols, now \in Clock :
         \E cardIndex \in (-1)..Len(state.current.tableau[fromCol]) :
            /\ findBestMove(state.current, fromCol, cardIndex) # Null
            /\ Dispatch([type |-> "MOVE", fromCol |-> fromCol, cardIndex |-> cardIndex,
                         toCol |-> Get(findBestMove(state.current, fromCol, cardIndex))],
                        now, <<>>)

\* deal(): DEAL is dispatched when the stock and every column hold a card
Deal ==
    /\ Len(state.history) < MaxHist
    /\ Len(state.current.stock) # 0
    /\ ~(\E col \in Cols : Len(state.current.tableau[col]) = 0)
    /\ \E now \in Clock : Dispatch([type |-> "DEAL"], now, <<>>)

Undo == Dispatch([type |-> "UNDO"], 1, <<>>)

Redo == Dispatch([type |-> "REDO"], 1, <<>>)

NewGame ==
    \E settings \in NewGameSettings, draws \in Shuffles :
        Dispatch([type |-> "NEW_GAME", settings |-> settings], 1, draws)

UpdateSettings ==
    \E patch \in SettingsPatches :
        Dispatch([type |-> "UPDATE_SETTINGS", settings |-> patch], 1, <<>>)

Next == Move \/ AutoMove \/ Deal \/ Undo \/ Redo \/ NewGame \/ UpdateSettings

Spec == Init /\ [][Next]_vars

\* The sessions that begin with the saved game played without a deal
UndealtSpec == UndealtInit /\ [][Next]_vars

\* The sessions that begin with the saved endgame
EndgameSpec == EndgameInit /\ [][Next]_vars

----------------------------------------------------------------------------
(* Vocabulary of the properties *)

\* The trail's MOVE or DEAL, the game state it was dispatched in, and the
\* session it produced
did    == Get(trail.action)
before == Get(trail.before)
after  == Get(trail.after)

\* The game state executeMove or dealFromStock of the trail had built when it
\* called the completion sweep, but for startTime
beforeSweep ==
    IF did.type = "DEAL" THEN applyDeal(before)
    ELSE applyMove(before, did.fromCol, did.cardIndex, did.toCol)

\* The column ends with 13 face-up cards of one suit that run K down to A
ToppedByRun(column) ==
    /\ Len(column) >= RunLength
    /\ \A k \in 1..RunLength :
          /\ column[Len(column) - RunLength + k].faceUp
          /\ column[Len(column) - RunLength + k].suit = column[Len(column)].suit
          /\ column[Len(column) - RunLength + k].rank = RANKS[RunLength + 1 - k]

\* The suffix of the column from source index cardIndex exists and is a run of
\* face-up cards of one suit whose ranks step down by one
ValidSuffix(column, cardIndex) ==
    /\ cardIndex >= 0
    /\ cardIndex < Len(column)
    /\ \A k \in (cardIndex + 1)..Len(column) : column[k].faceUp
    /\ \A k \in (cardIndex + 1)..(Len(column) - 1) :
          /\ column[k].suit = column[k + 1].suit
          /\ RANK_VALUES[column[k].rank] = RANK_VALUES[column[k + 1].rank] + 1

\* A card may be put on the target column: the column is empty or its top card
\* is one rank higher
LegalOnto(card, targetColumn) ==
    \/ Len(targetColumn) = 0
    \/ RANK_VALUES[targetColumn[Len(targetColumn)].rank] = RANK_VALUES[card.rank] + 1

\* All cards of a game state, in the order tableau columns, stock, completed
RECURSIVE flatten(_)
flatten(seqs) == IF Len(seqs) = 0 THEN <<>> ELSE Head(seqs) \o flatten(Tail(seqs))

allCards(s) ==
    flatten([k \in 1..NumCols |-> s.tableau[k - 1]]) \o s.stock \o flatten(s.completed)

\* The id, suit and rank of each card of a sequence
identities(cards) ==
    {<<cards[p].id, cards[p].suit, cards[p].rank>> : p \in 1..Len(cards)}

\* The cards are those of the deck, each id once
SameCards(cards, deck) ==
    /\ Len(cards) = Len(deck)
    /\ Cardinality({cards[p].id : p \in 1..Len(cards)}) = Len(cards)
    /\ identities(cards) = identities(deck)

----------------------------------------------------------------------------
(* Undo and redo *)

\* C1: after a successful MOVE or DEAL, an immediately following UNDO makes the
\* current game state equal, field by field, to the game state that was current
\* just before that MOVE or DEAL
C1_UndoRestoresPreState ==
    trail.phase = 2 => state.current = before

C1_Witness ==
    /\ trail.phase = 2
    /\ before # after.current
    /\ before.startTime = Null

\* C2: after a successful MOVE or DEAL and an UNDO, an immediately following
\* REDO makes current, history and future what they were right after the MOVE or
\* DEAL
C2_RedoRestoresPostState ==
    trail.phase = 3 =>
        /\ state.current = after.current
        /\ state.history = after.history
        /\ state.future = after.future

C2_Witness ==
    /\ trail.phase = 3
    /\ Len(state.history) = 2
    /\ state.current # state.history[2]

\* C3: every successful MOVE or DEAL leaves future empty, whatever it held before
C3_MoveClearsFuture ==
    trail.phase = 1 => state.future = <<>>

C3_Witness ==
    /\ trail.phase = 1
    /\ did.type = "MOVE"
    /\ trail.redoable = 2

----------------------------------------------------------------------------
(* Rejections of the engine *)

\* C4: executeMove returns null exactly when fromCol equals toCol, or the suffix
\* of column fromCol from cardIndex is not a valid sequence (index out of range,
\* a face-down card, a suit mismatch or a rank step other than 1), or the suffix
\* is not legal onto column toCol
C4_ExecuteMoveNullExactly ==
    \A fromCol \in Cols, toCol \in Cols :
        \A cardIndex \in (-1)..Len(state.current.tableau[fromCol]) :
            (executeMove(state.current, fromCol, cardIndex, toCol, 1) = Null)
            <=> \/ fromCol = toCol
                \/ ~ValidSuffix(state.current.tableau[fromCol], cardIndex)
                \/ ~LegalOnto(state.current.tableau[fromCol][cardIndex + 1],
                              state.current.tableau[toCol])

\* a MOVE was accepted, and in the state it produced a move is rejected for a
\* suit mismatch only, one for a face-down card and one for the target alone
C4_Witness ==
    /\ trail.phase = 1
    /\ did.type = "MOVE"
    /\ \E fromCol \in Cols, toCol \in Cols :
        \E cardIndex \in 0..(Len(state.current.tableau[fromCol]) - 2) :
            /\ fromCol # toCol
            /\ LegalOnto(state.current.tableau[fromCol][cardIndex + 1],
                         state.current.tableau[toCol])
            /\ \A k \in (cardIndex + 1)..Len(state.current.tableau[fromCol]) :
                  state.current.tableau[fromCol][k].faceUp
            /\ \A k \in (cardIndex + 1)..(Len(state.current.tableau[fromCol]) - 1) :
                  RANK_VALUES[state.current.tableau[fromCol][k].rank]
                    = RANK_VALUES[state.current.tableau[fromCol][k + 1].rank] + 1
            /\ executeMove(state.current, fromCol, cardIndex, toCol, 1) = Null
    /\ \E fromCol \in Cols, toCol \in Cols :
            /\ fromCol # toCol
            /\ Len(state.current.tableau[fromCol]) > 0
            /\ ~state.current.tableau[fromCol][1].faceUp
            /\ executeMove(state.current, fromCol, 0, toCol, 1) = Null
    /\ \E fromCol \in Cols, toCol \in Cols :
            /\ fromCol # toCol
            /\ ValidSuffix(state.current.tableau[fromCol],
                           Len(state.current.tableau[fromCol]) - 1)
            /\ executeMove(state.current, fromCol,
                           Len(state.current.tableau[fromCol]) - 1, toCol, 1) = Null

\* C5: dealFromStock returns null exactly when the stock is empty or at least
\* one of the 10 tableau columns is empty
C5_DealNullExactly ==
    \A now \in Times :
        (dealFromStock(state.current, now) = Null)
        <=> \/ Len(state.current.stock) = 0
            \/ \E col \in Cols : Len(state.current.tableau[col]) = 0

\* a deal is refused for an empty column alone, in a state a MOVE produced
C5_Witness ==
    /\ trail.phase = 1
    /\ Len(state.current.stock) > 0
    /\ \E col \in Cols : Len(state.current.tableau[col]) = 0
    /\ dealFromStock(state.current, 1) = Null

----------------------------------------------------------------------------
(* Deal *)

\* Column col after the deal and before the sweep, by the rule: the card at
\* stock position col, face-up, on top of the column
DealtColumn(s, col) ==
    Append(s.tableau[col],
           [id |-> s.stock[col + 1].id, suit |-> s.stock[col + 1].suit,
            rank |-> s.stock[col + 1].rank, faceUp |-> TRUE])

\* C6: a successful deal removes exactly the first 10 cards of the stock, in
\* order, and before the completion sweep appends the i-th of them face-up to
\* the top of column i; the remaining stock keeps its order
C6_DealTakesFirstTen ==
    (trail.phase = 1 /\ did.type = "DEAL") =>
        /\ Len(before.stock) >= NumCols
        /\ beforeSweep.stock = SubSeq(before.stock, NumCols + 1, Len(before.stock))
        /\ \A col \in Cols : beforeSweep.tableau[col] = DealtColumn(before, col)
        /\ state.current.stock = SubSeq(before.stock, NumCols + 1, Len(before.stock))
        /\ \A col \in Cols :
              \/ state.current.tableau[col] = DealtColumn(before, col)
              \/ ToppedByRun(DealtColumn(before, col))

C6_Witness ==
    /\ trail.phase = 1
    /\ did.type = "DEAL"
    /\ Len(state.current.stock) >= NumCols
    /\ \E col \in Cols : ~before.tableau[col][1].faceUp

----------------------------------------------------------------------------
(* Invariants of the game state *)

\* C7: in every reachable state isWon is true if and only if completed holds 8
\* sequences
C7_WonIffEightCompleted ==
    state.current.isWon <=> Len(state.current.completed) = WinCount

C7_Witness ==
    /\ trail.phase = 1
    /\ state.current.isWon
    /\ ~before.isWon

\* C8: in every reachable state, in every tableau column, no face-down card lies
\* above a face-up card
C8_FaceUpSuffix ==
    \A col \in Cols :
        \A i \in 1..Len(state.current.tableau[col]) :
            \A j \in i..Len(state.current.tableau[col]) :
                state.current.tableau[col][i].faceUp
                    => state.current.tableau[col][j].faceUp

\* a MOVE took the face-up cards off a column and turned the card below them
C8_Witness ==
    /\ trail.phase = 1
    /\ did.type = "MOVE"
    /\ did.cardIndex > 0
    /\ ~before.tableau[did.fromCol][did.cardIndex].faceUp
    /\ state.current.tableau[did.fromCol][did.cardIndex].faceUp
    /\ Len(state.current.tableau[did.toCol]) > 1

\* C9: in every reachable state the cards of tableau, stock and completed are
\* exactly the 104 cards of the dealt deck, each id once, with the suit and rank
\* the deck gave it
C9_CardConservation ==
    SameCards(allCards(state.current), createDeck(dealt))

\* a MOVE completed a sequence: 13 cards went from the tableau to completed
C9_Witness ==
    /\ trail.phase = 1
    /\ did.type = "MOVE"
    /\ Len(state.current.completed) = Len(before.completed) + 1
    /\ Len(allCards(state.current)) = 104

----------------------------------------------------------------------------
(* Completion sweep *)

\* C10: if a successful executeMove or dealFromStock leaves a column topped by
\* 13 face-up cards of one suit running K down to A, the returned state has
\* those 13 cards removed from the column and appended as one new entry to
\* completed, one entry per such column, and the newly exposed top card of the
\* column, if any, is face-up
C10_SweepRemovesRuns ==
    trail.phase = 1 =>
        /\ \A col \in Cols :
              ToppedByRun(beforeSweep.tableau[col]) =>
                /\ Len(state.current.tableau[col])
                      = Len(beforeSweep.tableau[col]) - RunLength
                /\ \A k \in 1..Len(state.current.tableau[col]) :
                      /\ state.current.tableau[col][k].id
                            = beforeSweep.tableau[col][k].id
                      /\ k < Len(state.current.tableau[col]) =>
                            state.current.tableau[col][k] = beforeSweep.tableau[col][k]
                /\ Len(state.current.tableau[col]) > 0 =>
                      state.current.tableau[col][Len(state.current.tableau[col])].faceUp
                /\ \E e \in (Len(before.completed) + 1)..Len(state.current.completed) :
                      state.current.completed[e]
                        = SubSeq(beforeSweep.tableau[col],
                                 Len(beforeSweep.tableau[col]) - RunLength + 1,
                                 Len(beforeSweep.tableau[col]))
        /\ SubSeq(state.current.completed, 1, Len(before.completed)) = before.completed
        /\ Len(state.current.completed)
              >= Len(before.completed)
                 + Cardinality({col \in Cols : ToppedByRun(beforeSweep.tableau[col])})

\* a sequence was completed on top of a face-down card, which the sweep turned
C10_Witness ==
    /\ trail.phase = 1
    /\ \E col \in Cols :
          /\ ToppedByRun(beforeSweep.tableau[col])
          /\ Len(state.current.tableau[col]) > 0
          /\ ~beforeSweep.tableau[col][Len(state.current.tableau[col])].faceUp

----------------------------------------------------------------------------
(* Legality of a target column *)

\* The place of a rank in the order A, 2, ..., K
rankPosition(rank) == CHOOSE p \in 1..Len(RANKS) : RANKS[p] = rank

\* The cards of the column from source index startIndex on
suffixFrom(column, startIndex) == SubSeq(column, startIndex + 1, Len(column))

\* C11: canMoveToColumn(cards, target) is false when cards is empty or its first
\* card is face-down; otherwise it is true for every empty target, whatever the
\* rank of the first card, and for a non-empty target it is true exactly when
\* the target's top card is one rank above the first card of cards, whatever
\* the suits of the two cards
C11_CanMoveToColumnRule ==
    \A fromCol \in Cols :
        \A startIndex \in 0..Len(state.current.tableau[fromCol]) :
            \A target \in {state.current.tableau[toCol] : toCol \in Cols} \cup {<<>>} :
                LET cards == suffixFrom(state.current.tableau[fromCol], startIndex)
                IN  canMoveToColumn(cards, target)
                    <=> /\ Len(cards) > 0
                        /\ cards[1].faceUp
                        /\ \/ Len(target) = 0
                           \/ rankPosition(target[Len(target)].rank)
                                = rankPosition(cards[1].rank) + 1

\* the state offers every case: an empty run, a face-down first card, a
\* face-up card that is no King and goes to an empty target, and a non-empty
\* target that takes a card of another suit and refuses one of the wrong rank
C11_Witness ==
    /\ \E fromCol \in Cols, toCol \in Cols :
          /\ Len(state.current.tableau[fromCol]) > 0
          /\ ~state.current.tableau[fromCol][1].faceUp
          /\ ~canMoveToColumn(state.current.tableau[fromCol], state.current.tableau[toCol])
          /\ ~canMoveToColumn(<<>>, state.current.tableau[toCol])
          /\ ~canMoveToColumn(state.current.tableau[fromCol], <<>>)
    /\ \E fromCol \in Cols :
          /\ Len(state.current.tableau[fromCol]) > 0
          /\ state.current.tableau[fromCol][Len(state.current.tableau[fromCol])].rank # "K"
          /\ canMoveToColumn(suffixFrom(state.current.tableau[fromCol],
                                        Len(state.current.tableau[fromCol]) - 1), <<>>)
    /\ \E fromCol \in Cols, toCol \in Cols, otherCol \in Cols :
          /\ Len(state.current.tableau[fromCol]) > 0
          /\ Len(state.current.tableau[toCol]) > 0
          /\ Len(state.current.tableau[otherCol]) > 0
          /\ state.current.tableau[fromCol][Len(state.current.tableau[fromCol])].suit
                # state.current.tableau[toCol][Len(state.current.tableau[toCol])].suit
          /\ canMoveToColumn(suffixFrom(state.current.tableau[fromCol],
                                        Len(state.current.tableau[fromCol]) - 1),
                             state.current.tableau[toCol])
          /\ ~canMoveToColumn(suffixFrom(state.current.tableau[fromCol],
                                         Len(state.current.tableau[fromCol]) - 1),
                              state.current.tableau[otherCol])

----------------------------------------------------------------------------
(* Effect of a move *)

\* C12: on a successful executeMove, before the completion sweep, the new toCol
\* is the old toCol followed by the old fromCol's suffix from cardIndex in the
\* same order, the new fromCol is the old fromCol's prefix below cardIndex with
\* only its last card turned face-up if it was face-down, and no other card's
\* faceUp flag changes
C12_MoveBeforeSweep ==
    \A fromCol \in Cols, toCol \in Cols :
        \A cardIndex \in 0..(Len(state.current.tableau[fromCol]) - 1) :
            executeMove(state.current, fromCol, cardIndex, toCol, 1) # Null
            => LET old == state.current.tableau
                   new == applyMove(state.current, fromCol, cardIndex, toCol)
               IN  /\ new.tableau[toCol] = old[toCol] \o suffixFrom(old[fromCol], cardIndex)
                   /\ Len(new.tableau[fromCol]) = cardIndex
                   /\ \A k \in 1..(cardIndex - 1) : new.tableau[fromCol][k] = old[fromCol][k]
                   /\ cardIndex > 0
                         => new.tableau[fromCol][cardIndex]
                              = [old[fromCol][cardIndex] EXCEPT !.faceUp = TRUE]
                   /\ \A col \in Cols \ {fromCol, toCol} : new.tableau[col] = old[col]
                   /\ new.stock = state.current.stock
                   /\ new.completed = state.current.completed

\* a MOVE was accepted that left face-down cards in its source column and
\* turned the topmost of them only
C12_Witness ==
    /\ trail.phase = 1
    /\ did.type = "MOVE"
    /\ did.cardIndex >= 2
    /\ ~before.tableau[did.fromCol][did.cardIndex].faceUp
    /\ ~before.tableau[did.fromCol][did.cardIndex - 1].faceUp
    /\ beforeSweep.tableau[did.fromCol][did.cardIndex].faceUp
    /\ ~beforeSweep.tableau[did.fromCol][did.cardIndex - 1].faceUp
    /\ Len(beforeSweep.tableau[did.toCol]) = Len(before.tableau[did.toCol])
          + Len(before.tableau[did.fromCol]) - did.cardIndex

----------------------------------------------------------------------------
(* Face-up cards stay face-up *)

\* The ids of the face-up cards of a sequence of cards
faceUpIn(cards) == {cards[k].id : k \in {j \in 1..Len(cards) : cards[j].faceUp}}

\* The ids of the cards that are face-up in the tableau or in completed
faceUpIds(s) ==
    UNION ({faceUpIn(s.tableau[col]) : col \in Cols}
           \cup {faceUpIn(s.completed[q]) : q \in 1..Len(s.completed)})

\* C13: no successful MOVE or DEAL turns a face-up card face-down: every card
\* that is face-up in the tableau or in completed before the transition is
\* still face-up after it
C13_FaceUpStays ==
    trail.phase = 1 => faceUpIds(before) \subseteq faceUpIds(state.current)

\* a MOVE was accepted that took face-up cards from the tableau to completed
\* and turned a face-down card up
C13_Witness ==
    /\ trail.phase = 1
    /\ did.type = "MOVE"
    /\ faceUpIds(before) # {}
    /\ Len(state.current.completed) > Len(before.completed)
    /\ faceUpIds(before) # faceUpIds(state.current)

----------------------------------------------------------------------------
(* Settings *)

\* The fields of a game state other than its settings
GameFields == {"tableau", "stock", "completed", "moves", "startTime", "isWon"}

\* C14: UPDATE_SETTINGS changes only the settings of the current snapshot:
\* tableau, stock, completed, moves, startTime and isWon of the current state,
\* and the history and future stacks, are all unchanged
C14_UpdateSettingsFrame ==
    [][UpdateSettings =>
            /\ \A field \in GameFields : state'.current[field] = state.current[field]
            /\ state'.history = state.history
            /\ state'.future = state.future]_vars

\* the settings were updated in a session with both stacks non-empty
C14_Witness ==
    /\ ~state.current.settings.soundEnabled
    /\ state.current.settings.suitCount = 4
    /\ dealt # 4
    /\ Len(state.history) > 0
    /\ Len(state.future) > 0
    /\ state.current.moves > 0

\* C15: a settings update is not undoable: if UPDATE_SETTINGS is applied and
\* then any sequence of UNDO and REDO follows, the settings of the current
\* state still equal the patched settings
C15_SettingsSurviveUndoRedo ==
    trail.phase = 4 => state.current.settings = after.current.settings

----------------------------------------------------------------------------
(* New game *)

\* C16: NEW_GAME from any state yields a freshly initialized current state
\* (moves 0, completed empty, isWon false, startTime null, 54 tableau cards,
\* 50 stock cards) with both history and future empty, so neither UNDO nor REDO
\* can bring back any state of the previous game
C16_NewGameIsFresh ==
    trail.phase = 5 =>
        /\ state.current.moves = 0
        /\ state.current.completed = <<>>
        /\ ~state.current.isWon
        /\ state.current.startTime = Null
        /\ Len(flatten([k \in 1..NumCols |-> state.current.tableau[k - 1]])) = 54
        /\ Len(state.current.stock) = 50
        /\ state.history = <<>>
        /\ state.future = <<>>
        /\ reducer(state, [type |-> "UNDO"], 1, <<>>) = state
        /\ reducer(state, [type |-> "REDO"], 1, <<>>) = state

\* NEW_GAME was dispatched in a session that had states to undo and to redo
C16_Witness ==
    /\ trail.phase = 5
    /\ trail.undoable > 0
    /\ trail.redoable > 0

----------------------------------------------------------------------------
(* Stuck detection *)

\* C17: isGameStuck(state) is true exactly when dealFromStock(state) returns
\* null and executeMove(state, fromCol, cardIndex, toCol) returns null for every
\* fromCol and toCol in 0..9 and every cardIndex: it is false exactly when some
\* deal or move would be accepted
C17_StuckIffNothingAccepted ==
    isGameStuck(state.current)
    <=> /\ dealFromStock(state.current, 1) = Null
        /\ \A fromCol \in Cols, toCol \in Cols :
              \A cardIndex \in (-1)..Len(state.current.tableau[fromCol]) :
                  executeMove(state.current, fromCol, cardIndex, toCol, 1) = Null

\* a MOVE led to a state in which the game is stuck with all ten columns
\* holding cards
C17_Witness ==
    /\ trail.phase = 1
    /\ isGameStuck(state.current)
    /\ \A col \in Cols : Len(state.current.tableau[col]) > 0

----------------------------------------------------------------------------
(* Auto-move *)

\* The columns other than fromCol onto which the suffix of fromCol from
\* cardIndex may go; none if the suffix is no valid run
Destinations(s, fromCol, cardIndex) ==
    {col \in Cols \ {fromCol} :
        /\ ValidSuffix(s.tableau[fromCol], cardIndex)
        /\ LegalOnto(s.tableau[fromCol][cardIndex + 1], s.tableau[col])}

\* The score of a destination: on a non-empty target 100 if its top card has
\* the suit of the run's first card, plus the target's length; on an empty
\* target 50 for a King and 1 for any other card
ScoreOf(s, fromCol, cardIndex, col) ==
    IF Len(s.tableau[col]) > 0
    THEN Len(s.tableau[col])
         + (IF s.tableau[col][Len(s.tableau[col])].suit
                 = s.tableau[fromCol][cardIndex + 1].suit THEN 100 ELSE 0)
    ELSE IF s.tableau[fromCol][cardIndex + 1].rank = "K" THEN 50 ELSE 1

\* r is what the rule picks: nothing if there is no destination, else the
\* destination of maximum score with the lowest index
PicksBest(s, fromCol, cardIndex, r, destinations) ==
    /\ r = Null <=> destinations = {}
    /\ r # Null =>
          /\ Get(r) \in destinations
          /\ \A col \in destinations :
                /\ ScoreOf(s, fromCol, cardIndex, col) <= ScoreOf(s, fromCol, cardIndex, Get(r))
                /\ ScoreOf(s, fromCol, cardIndex, col) = ScoreOf(s, fromCol, cardIndex, Get(r))
                      => Get(r) <= col

\* C18: findBestMove returns, among the columns other than fromCol onto which
\* the run is legal, a column of maximum score (non-empty target: 100 if its top
\* card's suit equals the run's first card's suit, plus the target's length;
\* empty target: 50 if the run's first card is a King, else 1); among
\* equal-score columns it returns the lowest index; it returns null exactly
\* when the run is invalid or no legal destination exists
C18_FindBestMoveRule ==
    \A fromCol \in Cols :
        \A cardIndex \in (-1)..Len(state.current.tableau[fromCol]) :
            PicksBest(state.current, fromCol, cardIndex,
                      findBestMove(state.current, fromCol, cardIndex),
                      Destinations(state.current, fromCol, cardIndex))

\* the state has a run with two destinations of the maximum score and a
\* destination of lower index and lower score, a valid run with no destination
\* and a suffix that is no valid run
C18_Witness ==
    /\ \E fromCol \in Cols :
         \E cardIndex \in 0..(Len(state.current.tableau[fromCol]) - 1) :
            /\ findBestMove(state.current, fromCol, cardIndex) # Null
            /\ \E col \in Destinations(state.current, fromCol, cardIndex) :
                  /\ col > Get(findBestMove(state.current, fromCol, cardIndex))
                  /\ ScoreOf(state.current, fromCol, cardIndex, col)
                        = ScoreOf(state.current, fromCol, cardIndex,
                                  Get(findBestMove(state.current, fromCol, cardIndex)))
            /\ \E col \in Destinations(state.current, fromCol, cardIndex) :
                  col < Get(findBestMove(state.current, fromCol, cardIndex))
    /\ \E fromCol \in Cols :
         \E cardIndex \in 0..(Len(state.current.tableau[fromCol]) - 1) :
            /\ ValidSuffix(state.current.tableau[fromCol], cardIndex)
            /\ findBestMove(state.current, fromCol, cardIndex) = Null
    /\ \E fromCol \in Cols :
         \E cardIndex \in 0..(Len(state.current.tableau[fromCol]) - 1) :
            /\ state.current.tableau[fromCol][cardIndex + 1].faceUp
            /\ ~ValidSuffix(state.current.tableau[fromCol], cardIndex)
            /\ findBestMove(state.current, fromCol, cardIndex) = Null

----------------------------------------------------------------------------
(* The initial deal and the deck *)

\* C19: initializeGame returns a state whose columns 0..3 hold 6 cards and
\* columns 4..9 hold 5 cards, in each column exactly the last card is face-up
\* and all others face-down, the stock holds the remaining 50 cards all
\* face-down, moves is 0, startTime is null, isWon is false and completed is
\* empty
C19_InitialDeal ==
    trail.phase = 5 =>
        /\ \A col \in 0..3 : Len(state.current.tableau[col]) = 6
        /\ \A col \in 4..9 : Len(state.current.tableau[col]) = 5
        /\ \A col \in Cols :
              \A k \in 1..Len(state.current.tableau[col]) :
                  state.current.tableau[col][k].faceUp
                  <=> k = Len(state.current.tableau[col])
        /\ Len(state.current.stock) = 50
        /\ \A k \in 1..Len(state.current.stock) : ~state.current.stock[k].faceUp
        /\ SameCards(allCards(state.current), createDeck(dealt))
        /\ state.current.moves = 0
        /\ state.current.startTime = Null
        /\ ~state.current.isWon
        /\ state.current.completed = <<>>

\* a four-suit game was dealt by NEW_GAME in a session that had moves played
C19_Witness ==
    /\ trail.phase = 5
    /\ Get(trail.action).settings = Null
    /\ state.current.settings.suitCount = 4
    /\ trail.undoable > 0

\* The deck has 104 face-down cards of pairwise distinct ids and exactly
\* suitCount suits, each suit and rank together 8/suitCount times and each of
\* the 13 ranks 8 times
IsFullDeck(deck, suitCount) ==
    /\ Len(deck) = 104
    /\ \A k \in 1..Len(deck) : ~deck[k].faceUp
    /\ Cardinality({deck[k].id : k \in 1..Len(deck)}) = Len(deck)
    /\ Cardinality({deck[k].suit : k \in 1..Len(deck)}) = suitCount
    /\ {deck[k].rank : k \in 1..Len(deck)} = {RANKS[r] : r \in 1..13}
    /\ \A suit \in {deck[k].suit : k \in 1..Len(deck)} :
          \A r \in 1..13 :
              suitCount * Cardinality({k \in 1..Len(deck) :
                                        deck[k].suit = suit /\ deck[k].rank = RANKS[r]}) = 8
    /\ \A r \in 1..13 :
          Cardinality({k \in 1..Len(deck) : deck[k].rank = RANKS[r]}) = 8

\* C20: for every suitCount in {1, 2, 4}, createDeck returns exactly 104
\* face-down cards with pairwise distinct ids, using exactly suitCount distinct
\* suits, in which every (suit, rank) pair of the suits used occurs exactly
\* 8/suitCount times, so each of the 13 ranks occurs exactly 8 times.  dealt
\* is the suit count createDeck was called with for the game in play
C20_DeckComposition ==
    /\ dealt \in SuitCounts
    /\ IsFullDeck(createDeck(dealt), dealt)

\* NEW_GAME has dealt a one-suit game from the deck createDeck(1) returns
C20_Witness ==
    /\ trail.phase = 5
    /\ dealt = 1
    /\ IsFullDeck(createDeck(dealt), dealt)
    /\ identities(allCards(state.current)) = identities(createDeck(dealt))

----------------------------------------------------------------------------
(* hasCompleteSequence on columns of any content *)

\* Number of blocks a column is built of
MaxBlocks == 3

\* The 13 cards K down to A of a suit, face-up, without ids
runOf(suit) ==
    [k \in 1..RunLength |-> [suit |-> suit, rank |-> RANKS[RunLength + 1 - k], faceUp |-> TRUE]]

\* The pieces columns are built of: a run of spades, a run of hearts, a run of
\* spades that ends with the ace of hearts, a run of spades whose King is
\* face-down, the hearts from K down to 2, and an ace of hearts
ColumnBlocks ==
    { runOf("spades"), runOf("hearts"),
      [runOf("spades") EXCEPT ![RunLength].suit = "hearts"],
      [runOf("spades") EXCEPT ![1].faceUp = FALSE],
      SubSeq(runOf("hearts"), 1, RunLength - 1),
      <<[suit |-> "hearts", rank |-> "A", faceUp |-> TRUE]>> }

\* The cards with ids 1, 2, ... in their order
withIds(cards) ==
    [k \in 1..Len(cards) |->
        [id |-> k, suit |-> cards[k].suit, rank |-> cards[k].rank, faceUp |-> cards[k].faceUp]]

\* A session whose game has the column as column 0 and nothing else
columnSession(column) ==
    [current |-> [createPlaceholderState EXCEPT
                     !.tableau = [col \in Cols |-> IF col = 0 THEN column ELSE <<>>]],
     history |-> <<>>,
     future  |-> <<>>]

ColumnInit ==
    /\ \E n \in 0..MaxBlocks :
         \E blocks \in [1..n -> ColumnBlocks] :
            state = columnSession(withIds(flatten(blocks)))
    /\ trail = NoTrail
    /\ dealt = 2
    /\ layout = Null
    /\ origin = Null

\* checkAndRemoveCompleteSequences applied to a game that has a complete
\* sequence
Sweep ==
    /\ \E col \in Cols : hasCompleteSequence(state.current.tableau[col]) # Null
    /\ state' = [state EXCEPT !.current = checkAndRemoveCompleteSequences(@)]
    /\ UNCHANGED <<trail, dealt, layout, origin>>

ColumnNext == Sweep

ColumnSpec == ColumnInit /\ [][ColumnNext]_vars

\* The start indices of the windows of 13 contiguous face-up cards of one suit
\* that run K down to A
WindowStarts(column) ==
    {i \in 0..(Len(column) - RunLength) :
        \A k \in 1..RunLength :
            /\ column[i + k].faceUp
            /\ column[i + k].suit = column[i + 1].suit
            /\ column[i + k].rank = RANKS[RunLength + 1 - k]}

\* r is null for a column shorter than 13 cards
NullIfShort(column, r) == Len(column) < RunLength => r = Null

----------------------------------------------------------------------------
(* The recorded snapshots *)

\* The first sequence is the beginning of the second
IsPrefix(short, long) ==
    /\ Len(short) <= Len(long)
    /\ SubSeq(long, 1, Len(short)) = short

----------------------------------------------------------------------------
(* Stack offsets of a column on the board *)

\* Numbers of the layout are fractions <<numerator, denominator>> with a
\* positive denominator, computed exactly
fracLeq(a, b) == a[1] * b[2] <= b[1] * a[2]
fracMax(a, b) == IF fracLeq(a, b) THEN b ELSE a
fracAdd(a, b) == <<a[1] * b[2] + b[1] * a[2], a[2] * b[2]>>
fracTimes(k, a) == <<k * a[1], a[2]>>

MIN_FACEDOWN_PEEK == 4
MIN_FACEUP_PEEK == 12
IDEAL_FACEDOWN_PEEK == 8
IDEAL_FACEUP_PEEK == 22

\* The counting loop of calculateSmartOverlap: the cards below the last one
faceUpCountOf(cards) == Cardinality({i \in 1..(Len(cards) - 1) : cards[i].faceUp})
faceDownCountOf(cards) == Cardinality({i \in 1..(Len(cards) - 1) : ~cards[i].faceUp})

idealOffsets ==
    [faceDownOffset |-> <<IDEAL_FACEDOWN_PEEK, 1>>,
     faceUpOffset   |-> <<IDEAL_FACEUP_PEEK, 1>>,
     needsScroll    |-> FALSE]

\* Math.max(a, b) of integers
maxOf(a, b) == IF a >= b THEN a ELSE b

\* calculateSmartOverlap after the counting loop, whose branch for no space
\* returns the minimum peeks
compressedOffsets_minPeeks(faceDownCount, faceUpCount, availableSpace) ==
    IF availableSpace <= 0 \/ faceDownCount + faceUpCount = 0
    THEN [faceDownOffset |-> <<MIN_FACEDOWN_PEEK, 1>>,
          faceUpOffset   |-> <<MIN_FACEUP_PEEK, 1>>,
          needsScroll    |-> FALSE]
    ELSE LET idealTotal == faceDownCount * IDEAL_FACEDOWN_PEEK + faceUpCount * IDEAL_FACEUP_PEEK
             minTotal   == faceDownCount * MIN_FACEDOWN_PEEK + faceUpCount * MIN_FACEUP_PEEK
         IN  IF idealTotal <= availableSpace THEN idealOffsets
             ELSE IF minTotal >= availableSpace
             THEN [faceDownOffset |-> fracMax(<<2, 1>>, <<MIN_FACEDOWN_PEEK * availableSpace, minTotal>>),
                   faceUpOffset   |-> fracMax(<<3, 1>>, <<MIN_FACEUP_PEEK * availableSpace, minTotal>>),
                   needsScroll    |-> FALSE]
             ELSE [faceDownOffset |->
                      <<MIN_FACEDOWN_PEEK * (idealTotal - minTotal)
                          + (availableSpace - minTotal) * (IDEAL_FACEDOWN_PEEK - MIN_FACEDOWN_PEEK),
                        idealTotal - minTotal>>,
                   faceUpOffset |->
                      <<MIN_FACEUP_PEEK * (idealTotal - minTotal)
                          + (availableSpace - minTotal) * (IDEAL_FACEUP_PEEK - MIN_FACEUP_PEEK),
                        idealTotal - minTotal>>,
                   needsScroll |-> FALSE]

\* calculateSmartOverlap after the counting loop, without the branch for the
\* ideal offsets that fit
compressedOffsets_noIdealBranch(faceDownCount, faceUpCount, availableSpace) ==
    IF availableSpace <= 0 \/ faceDownCount + faceUpCount = 0
    THEN [faceDownOffset |-> fracMax(<<2, 1>>, <<availableSpace, maxOf(faceDownCount + faceUpCount, 1)>>),
          faceUpOffset   |-> fracMax(<<2, 1>>, <<availableSpace, maxOf(faceDownCount + faceUpCount, 1)>>),
          needsScroll    |-> FALSE]
    ELSE LET idealTotal == faceDownCount * IDEAL_FACEDOWN_PEEK + faceUpCount * IDEAL_FACEUP_PEEK
             minTotal   == faceDownCount * MIN_FACEDOWN_PEEK + faceUpCount * MIN_FACEUP_PEEK
         IN  IF minTotal >= availableSpace
             THEN [faceDownOffset |-> fracMax(<<2, 1>>, <<MIN_FACEDOWN_PEEK * availableSpace, minTotal>>),
                   faceUpOffset   |-> fracMax(<<3, 1>>, <<MIN_FACEUP_PEEK * availableSpace, minTotal>>),
                   needsScroll    |-> FALSE]
             ELSE [faceDownOffset |->
                      <<MIN_FACEDOWN_PEEK * (idealTotal - minTotal)
                          + (availableSpace - minTotal) * (IDEAL_FACEDOWN_PEEK - MIN_FACEDOWN_PEEK),
                        idealTotal - minTotal>>,
                   faceUpOffset |->
                      <<MIN_FACEUP_PEEK * (idealTotal - minTotal)
                          + (availableSpace - minTotal) * (IDEAL_FACEUP_PEEK - MIN_FACEUP_PEEK),
                        idealTotal - minTotal>>,
                   needsScroll |-> FALSE]

\* calculateSmartOverlap after the counting loop, for a column of two cards
\* or more
compressedOffsets(faceDownCount, faceUpCount, availableSpace) ==
    IF availableSpace <= 0 \/ faceDownCount + faceUpCount = 0
    THEN [faceDownOffset |-> fracMax(<<2, 1>>, <<availableSpace, maxOf(faceDownCount + faceUpCount, 1)>>),
          faceUpOffset   |-> fracMax(<<2, 1>>, <<availableSpace, maxOf(faceDownCount + faceUpCount, 1)>>),
          needsScroll    |-> FALSE]
    ELSE LET idealTotal == faceDownCount * IDEAL_FACEDOWN_PEEK + faceUpCount * IDEAL_FACEUP_PEEK
             minTotal   == faceDownCount * MIN_FACEDOWN_PEEK + faceUpCount * MIN_FACEUP_PEEK
         IN  IF idealTotal <= availableSpace THEN idealOffsets
             ELSE IF minTotal >= availableSpace
             THEN [faceDownOffset |-> fracMax(<<2, 1>>, <<MIN_FACEDOWN_PEEK * availableSpace, minTotal>>),
                   faceUpOffset   |-> fracMax(<<3, 1>>, <<MIN_FACEUP_PEEK * availableSpace, minTotal>>),
                   needsScroll    |-> FALSE]
             ELSE [faceDownOffset |->
                      <<MIN_FACEDOWN_PEEK * (idealTotal - minTotal)
                          + (availableSpace - minTotal) * (IDEAL_FACEDOWN_PEEK - MIN_FACEDOWN_PEEK),
                        idealTotal - minTotal>>,
                   faceUpOffset |->
                      <<MIN_FACEUP_PEEK * (idealTotal - minTotal)
                          + (availableSpace - minTotal) * (IDEAL_FACEUP_PEEK - MIN_FACEUP_PEEK),
                        idealTotal - minTotal>>,
                   needsScroll |-> FALSE]

calculateSmartOverlap(cards, cardHeight, maxStackHeight) ==
    IF Len(cards) <= 1 THEN idealOffsets
    ELSE compressedOffsets(faceDownCountOf(cards), faceUpCountOf(cards),
                           maxStackHeight - cardHeight)

calculateStackHeight(cards, cardHeight, offsets) ==
    IF Len(cards) = 0 THEN <<0, 1>>
    ELSE IF Len(cards) = 1 THEN <<cardHeight, 1>>
    ELSE fracAdd(<<cardHeight, 1>>,
                 fracAdd(fracTimes(faceUpCountOf(cards), offsets.faceUpOffset),
                         fracTimes(faceDownCountOf(cards), offsets.faceDownOffset)))

\* Longest column laid out
MaxCards == 40

\* Card heights and row heights of the board, in pixels
CardHeights == {69, 124}
StackHeights == {20, 69, 80, 124, 200, 400, 700, 1000}

\* A column of faceDown face-down and faceUp face-up cards, the face-down ones
\* below or on top
columnOf(faceDown, faceUp, downFirst) ==
    withIds([k \in 1..(faceDown + faceUp) |->
                [suit |-> "spades", rank |-> "A",
                 faceUp |-> IF downFirst THEN k > faceDown ELSE k <= faceUp]])

\* What the board keeps of the layout of column 0, and the layout it replaced
\* (Null at the first layout)
laidOut(column, cardHeight, maxHeight, previous) ==
    [cardHeight |-> cardHeight, maxHeight |-> maxHeight,
     offsets |-> calculateSmartOverlap(column, cardHeight, maxHeight),
     previous |-> previous]

LayoutInit ==
    /\ \E n \in 0..MaxCards :
         \E faceDown \in 0..n, downFirst \in BOOLEAN :
            state = columnSession(columnOf(faceDown, n - faceDown, downFirst))
    /\ trail = NoTrail
    /\ dealt = 2
    /\ origin = Null
    /\ \E cardHeight \in CardHeights, maxHeight \in StackHeights :
          layout = Some(laidOut(state.current.tableau[0], cardHeight, maxHeight, Null))

\* The row height changes and the board lays the column out again
Resize ==
    /\ \E maxHeight \in StackHeights :
          layout' = Some(laidOut(state.current.tableau[0], Get(layout).cardHeight, maxHeight,
                                 Some([maxHeight |-> Get(layout).maxHeight,
                                       offsets |-> Get(layout).offsets])))
    /\ UNCHANGED <<state, trail, dealt, origin>>

LayoutNext == Resize

LayoutSpec == LayoutInit /\ [][LayoutNext]_vars

\* C23: for every column of 0 to 40 cards (any mix of face-up and face-down),
\* every cardHeight > 0 and every maxStackHeight > 0, the offsets returned by
\* calculateSmartOverlap give a calculateStackHeight of at most maxStackHeight
C23_StackFits ==
    layout # Null =>
        fracLeq(calculateStackHeight(state.current.tableau[0], Get(layout).cardHeight,
                                     Get(layout).offsets),
                <<Get(layout).maxHeight, 1>>)

\* The branch of calculateSmartOverlap a column of two cards or more takes
branchOf(column, cardHeight, maxHeight) ==
    LET faceDownCount  == faceDownCountOf(column)
        faceUpCount    == faceUpCountOf(column)
        availableSpace == maxHeight - cardHeight
    IN  IF availableSpace <= 0 THEN "none"
        ELSE IF faceDownCount * IDEAL_FACEDOWN_PEEK + faceUpCount * IDEAL_FACEUP_PEEK <= availableSpace
        THEN "ideal"
        ELSE IF faceDownCount * MIN_FACEDOWN_PEEK + faceUpCount * MIN_FACEUP_PEEK >= availableSpace
        THEN "scaled"
        ELSE "interpolated"

\* C24: for a fixed column and cardHeight, a layout for a maxStackHeight no
\* larger than another's has a faceUpOffset and a faceDownOffset no larger than
\* the other's, whatever branches the two take
C24_OffsetsMonotonic ==
    (layout # Null /\ Get(layout).previous # Null) =>
        LET now  == Get(layout)
            prev == Get(Get(layout).previous)
        IN  /\ prev.maxHeight <= now.maxHeight =>
                  /\ fracLeq(prev.offsets.faceUpOffset, now.offsets.faceUpOffset)
                  /\ fracLeq(prev.offsets.faceDownOffset, now.offsets.faceDownOffset)
            /\ now.maxHeight <= prev.maxHeight =>
                  /\ fracLeq(now.offsets.faceUpOffset, prev.offsets.faceUpOffset)
                  /\ fracLeq(now.offsets.faceDownOffset, prev.offsets.faceDownOffset)

\* A column of face-down and face-up cards laid out without space and then
\* with space for scaled offsets, the offsets growing
C24_Witness ==
    /\ layout # Null
    /\ Get(layout).previous # Null
    /\ Len(state.current.tableau[0]) = MaxCards
    /\ faceDownCountOf(state.current.tableau[0]) > 0
    /\ faceUpCountOf(state.current.tableau[0]) > 0
    /\ branchOf(state.current.tableau[0], Get(layout).cardHeight,
                Get(Get(layout).previous).maxHeight) = "scaled"
    /\ branchOf(state.current.tableau[0], Get(layout).cardHeight,
                Get(layout).maxHeight) = "interpolated"
    /\ ~fracLeq(Get(layout).offsets.faceUpOffset,
                Get(Get(layout).previous).offsets.faceUpOffset)

\* C25: calculateSmartOverlap returns a faceDownOffset of at most 8 and a
\* faceUpOffset of at most 22, and both offsets are at least 2
C25_OffsetBounds ==
    layout # Null =>
        /\ fracLeq(Get(layout).offsets.faceDownOffset, <<IDEAL_FACEDOWN_PEEK, 1>>)
        /\ fracLeq(Get(layout).offsets.faceUpOffset, <<IDEAL_FACEUP_PEEK, 1>>)
        /\ fracLeq(<<2, 1>>, Get(layout).offsets.faceDownOffset)
        /\ fracLeq(<<2, 1>>, Get(layout).offsets.faceUpOffset)

\* A column laid out with more space than the ideal offsets need, and one laid
\* out with no space at all
C25_Witness ==
    /\ layout # Null
    /\ Len(state.current.tableau[0]) > 2
    /\ Get(layout).previous # Null
    /\ branchOf(state.current.tableau[0], Get(layout).cardHeight,
                Get(Get(layout).previous).maxHeight) = "none"
    /\ Get(Get(layout).previous).offsets.faceDownOffset = <<2, 1>>
    /\ branchOf(state.current.tableau[0], Get(layout).cardHeight,
                Get(layout).maxHeight) = "ideal"
    /\ Get(layout).maxHeight - Get(layout).cardHeight >
          faceDownCountOf(state.current.tableau[0]) * IDEAL_FACEDOWN_PEEK
            + faceUpCountOf(state.current.tableau[0]) * IDEAL_FACEUP_PEEK
    /\ Get(layout).offsets = idealOffsets

----------------------------------------------------------------------------
(* Dispatches the reducer turns down *)

\* The session the trail's rejected action was dispatched in
sessionBefore == Get(trail.before)

\* C26: a MOVE or DEAL dispatch that the engine rejects leaves the whole
\* session unchanged: current, history and future are exactly as before; a
\* rejected move after an UNDO neither clears the redo stack nor adds a history
\* entry
C26_RejectedLeavesSession ==
    /\ (trail.phase = 6 /\ did.type = "MOVE") =>
            /\ state.current = sessionBefore.current
            /\ state.history = sessionBefore.history
            /\ state.future = sessionBefore.future
    /\ dealFromStock(state.current, 1) = Null
          => reducer(state, [type |-> "DEAL"], 1, <<>>) = state

\* a MOVE was rejected right after an UNDO, with the redo stack still holding
\* the undone state, in a position where a DEAL is rejected too
C26_Witness ==
    /\ trail.phase = 6
    /\ did.type = "MOVE"
    /\ dealFromStock(state.current, 1) = Null
    /\ Len(state.future) > 0
    /\ Len(sessionBefore.future) > 0
    /\ state.future[1].moves = state.current.moves + 1
    /\ state = sessionBefore

\* The snapshots of a session in the order they were played: the undo stack,
\* the current state, the redo stack
timeline(st) == st.history \o <<st.current>> \o st.future

\* C27: UNDO with an empty history and REDO with an empty future leave
\* current, history and future unchanged; otherwise UNDO takes exactly one
\* snapshot off the end of history and puts one at the front of future, REDO
\* takes exactly one off the front of future and puts one at the end of
\* history, the snapshots keeping their order, so history.length +
\* future.length is unchanged by both
C27_UndoRedoMovePointer ==
    [][/\ Undo =>
            IF Len(state.history) = 0 THEN state' = state
            ELSE /\ state'.history = SubSeq(state.history, 1, Len(state.history) - 1)
                 /\ Len(state'.future) = Len(state.future) + 1
                 /\ SubSeq(state'.future, 2, Len(state'.future)) = state.future
                 /\ timeline(state') = timeline(state)
                 /\ Len(state'.history) + Len(state'.future)
                        = Len(state.history) + Len(state.future)
       /\ Redo =>
            IF Len(state.future) = 0 THEN state' = state
            ELSE /\ state'.future = SubSeq(state.future, 2, Len(state.future))
                 /\ Len(state'.history) = Len(state.history) + 1
                 /\ SubSeq(state'.history, 1, Len(state.history)) = state.history
                 /\ timeline(state') = timeline(state)
                 /\ Len(state'.history) + Len(state'.future)
                        = Len(state.history) + Len(state.future)]_vars

\* a DEAL on top of an undo stack of one snapshot was undone: the undo stack
\* is back to that snapshot, the redo stack holds the state the deal produced
\* and the current state is the one the deal was dispatched in
C27_Witness ==
    /\ trail.phase = 2
    /\ did.type = "DEAL"
    /\ trail.undoable = 1
    /\ Len(state.history) = 1
    /\ Len(state.future) = 1
    /\ state.future[1] = after.current
    /\ state.current = before
    /\ state.current # state.future[1]
    /\ state.current # state.history[1]

----------------------------------------------------------------------------
(* Games begun by NEW_GAME *)

\* UNDO dispatched until the undo stack is empty
RECURSIVE undoAll(_)
undoAll(st) == IF Len(st.history) = 0 THEN st ELSE undoAll(undoCase(st))

\* The fields of a game state that a deal decides
DealFields == {"tableau", "stock", "moves", "completed", "isWon", "startTime"}

\* C28: from any session state reachable from NEW_GAME by MOVE, DEAL, UNDO and
\* REDO, UNDO applied until history is empty ends in a current state equal to
\* the initially dealt state of that game: same tableau and stock, moves 0,
\* completed empty, isWon false, startTime null
C28_UndoAllRestoresDeal ==
    origin # Null =>
        LET first == undoAll(state).current
        IN  /\ \A f \in DealFields : first[f] = Get(origin)[f]
            /\ first.moves = 0
            /\ first.completed = <<>>
            /\ ~first.isWon
            /\ first.startTime = Null

\* a game begun by NEW_GAME with two snapshots on the undo stack, the second
\* DEAL redone after an UNDO
C28_Witness ==
    /\ origin # Null
    /\ trail.phase = 3
    /\ did.type = "DEAL"
    /\ Len(state.history) = 2
    /\ state.history[2] # Get(origin)
    /\ state.current.startTime # Null
    /\ state.current.tableau # Get(origin).tableau
    /\ state.current.stock # Get(origin).stock
    /\ undoAll(state).current = Get(origin)

\* canUndo of the context value
canUndo(st) == Len(st.history) > 0

\* C29: in every session state reachable from NEW_GAME by MOVE, DEAL, UNDO,
\* REDO and UPDATE_SETTINGS, current.moves equals history.length, the i-th
\* history entry (from 0) has moves = i, and the j-th future entry (from 0) has
\* moves = current.moves + j + 1; hence canUndo holds exactly when
\* current.moves > 0
C29_MovesCountSnapshots ==
    origin # Null =>
        /\ state.current.moves = Len(state.history)
        /\ \A i \in 1..Len(state.history) : state.history[i].moves = i - 1
        /\ \A j \in 1..Len(state.future) :
              state.future[j].moves = state.current.moves + j
        /\ canUndo(state) <=> state.current.moves > 0

\* a game begun by NEW_GAME with a snapshot on each stack after an UNDO
C29_Witness ==
    /\ origin # Null
    /\ trail.phase = 2
    /\ Len(state.history) = 1
    /\ Len(state.future) = 1
    /\ state.current.moves = 1
    /\ state.future[1].moves = 2
    /\ canUndo(state)

----------------------------------------------------------------------------
(* The move counter *)

\* C30: each successful MOVE or DEAL increases moves by exactly 1, also when
\* the completion sweep removes one or more runs in the same step; a rejected
\* MOVE or DEAL leaves moves unchanged
C30_MovesStepByOne ==
    /\ trail.phase = 1 => state.current.moves = before.moves + 1
    /\ (trail.phase = 6 /\ did.type = "MOVE") =>
            state.current.moves = sessionBefore.current.moves
    /\ dealFromStock(state.current, 1) = Null
          => reducer(state, [type |-> "DEAL"], 1, <<>>).current.moves
                = state.current.moves

\* a MOVE was accepted and the sweep removed a run in the same step
C30_Witness ==
    /\ trail.phase = 1
    /\ did.type = "MOVE"
    /\ Len(state.current.completed) > Len(before.completed)
    /\ state.current.moves = before.moves + 1

----------------------------------------------------------------------------
(* Invariants of the game state *)

\* C31: in every state reachable from initializeGame by MOVE, DEAL, UNDO and
\* REDO no tableau column contains a complete sequence: hasCompleteSequence is
\* null for all 10 columns, one pass of the completion sweep per move or deal
\* having removed every complete run
C31_NoCompleteRunLeft ==
    \A col \in Cols : hasCompleteSequence(state.current.tableau[col]) = Null

\* a MOVE completed a run, the sweep took it out of the target column and
\* nothing complete is left
C31_Witness ==
    /\ trail.phase = 1
    /\ did.type = "MOVE"
    /\ Len(state.current.completed) = Len(before.completed) + 1
    /\ hasCompleteSequence(applyMove(before, did.fromCol, did.cardIndex,
                                     did.toCol).tableau[did.toCol]) # Null
    /\ \A col \in Cols : hasCompleteSequence(state.current.tableau[col]) = Null

\* C33: in every state reachable from initializeGame by MOVE, DEAL, UNDO and
\* REDO the top (last) card of every non-empty tableau column is face-up
C33_TopFaceUp ==
    \A col \in Cols :
        Len(state.current.tableau[col]) > 0
            => state.current.tableau[col][Len(state.current.tableau[col])].faceUp

\* a MOVE uncovered a face-down card, which is now the face-up top of its
\* column
C33_Witness ==
    /\ trail.phase = 1
    /\ did.type = "MOVE"
    /\ did.cardIndex > 0
    /\ ~before.tableau[did.fromCol][did.cardIndex].faceUp
    /\ Len(state.current.tableau[did.fromCol]) = did.cardIndex
    /\ state.current.tableau[did.fromCol][did.cardIndex].faceUp

\* C34: in every state reachable from initializeGame by MOVE, DEAL, UNDO and
\* REDO the stock length is a multiple of 10 between 0 and 50 and all stock
\* cards are face-down; an accepted DEAL lowers the stock by exactly 10 and an
\* accepted MOVE leaves it as it is, so that at most 5 deals succeed along a
\* path without UNDO or NEW_GAME
C34_StockInTens ==
    /\ Len(state.current.stock) \in {0, 10, 20, 30, 40, 50}
    /\ \A k \in 1..Len(state.current.stock) : ~state.current.stock[k].faceUp
    /\ (trail.phase = 1 /\ did.type = "DEAL") =>
            /\ Len(before.stock) >= NumCols
            /\ Len(state.current.stock) = Len(before.stock) - NumCols
    /\ (trail.phase = 1 /\ did.type = "MOVE") => state.current.stock = before.stock

\* the fifth DEAL of a game was accepted and emptied the stock
C34_Witness ==
    /\ trail.phase = 1
    /\ did.type = "DEAL"
    /\ Len(before.stock) = NumCols
    /\ Len(state.current.stock) = 0

\* Whether cards are 13 face-up cards of a single suit with ranks K down to A
IsRun(cards) ==
    /\ Len(cards) = RunLength
    /\ \A k \in 1..RunLength :
          /\ cards[k].faceUp
          /\ cards[k].suit = cards[1].suit
          /\ cards[k].rank = RANKS[RunLength + 1 - k]

\* C32: in every reachable state every entry of completed holds exactly 13
\* face-up cards of a single suit with ranks K, Q, J, 10, ..., 2, A in that
\* order, completed.length is at most 8, and an accepted MOVE or DEAL leaves
\* the entries completed had in place, adding new ones at the end
C32_CompletedAreRuns ==
    /\ \A k \in 1..Len(state.current.completed) : IsRun(state.current.completed[k])
    /\ Len(state.current.completed) <= WinCount
    /\ trail.phase = 1 => IsPrefix(before.completed, state.current.completed)

----------------------------------------------------------------------------
(* Frame of a move, and findBestMove against executeMove *)

\* C35: a successful executeMove leaves stock and settings unchanged and leaves
\* every tableau column other than fromCol and toCol unchanged; the completion
\* sweep it triggers removes a run from toCol only
C35_MoveFrame ==
    (trail.phase = 1 /\ did.type = "MOVE") =>
        /\ state.current.stock = before.stock
        /\ state.current.settings = before.settings
        /\ \A col \in Cols \ {did.fromCol, did.toCol} :
              state.current.tableau[col] = before.tableau[col]
        /\ \A col \in Cols \ {did.toCol} :
              state.current.tableau[col] = beforeSweep.tableau[col]

\* a MOVE whose sweep took a run out of toCol, in a game with a stock and with
\* cards in the other columns
C35_Witness ==
    /\ trail.phase = 1
    /\ did.type = "MOVE"
    /\ Len(state.current.completed) > Len(before.completed)
    /\ state.current.tableau[did.toCol] # beforeSweep.tableau[did.toCol]
    /\ state.current.tableau[did.fromCol] # before.tableau[did.fromCol]
    /\ Len(state.current.stock) > 0
    /\ state.current.stock = before.stock
    /\ \E col \in Cols \ {did.fromCol, did.toCol} :
          /\ Len(before.tableau[col]) > 0
          /\ state.current.tableau[col] = before.tableau[col]

\* What C36 says of the result r of findBestMove(s, fromCol, cardIndex)
AgreesWithExecuteMove(s, fromCol, cardIndex, r) ==
    IF r # Null
    THEN /\ Get(r) \in Cols \ {fromCol}
         /\ executeMove(s, fromCol, cardIndex, Get(r), 1) # Null
    ELSE \A t \in Cols : executeMove(s, fromCol, cardIndex, t, 1) = Null

\* C36: whenever findBestMove(state, fromCol, cardIndex) returns a column t, t
\* differs from fromCol and executeMove(state, fromCol, cardIndex, t) is
\* non-null; it returns null only if executeMove is null for every t in 0..9;
\* so a MOVE that autoMove dispatches is never rejected
C36_FindBestMoveAgrees ==
    \A fromCol \in Cols :
        \A cardIndex \in (-1)..Len(state.current.tableau[fromCol]) :
            AgreesWithExecuteMove(state.current, fromCol, cardIndex,
                                  findBestMove(state.current, fromCol, cardIndex))

\* the MOVE of an autoMove was accepted, and in the state it produced
\* findBestMove finds a column for one valid sequence and none for another
C36_Witness ==
    /\ trail.phase = 1
    /\ did.type = "MOVE"
    /\ findBestMove(before, did.fromCol, did.cardIndex) = Some(did.toCol)
    /\ \E fromCol \in Cols :
          \E cardIndex \in 0..(Len(state.current.tableau[fromCol]) - 1) :
              findBestMove(state.current, fromCol, cardIndex) # Null
    /\ \E fromCol \in Cols :
          \E cardIndex \in 0..(Len(state.current.tableau[fromCol]) - 1) :
              /\ getValidSequence(state.current.tableau[fromCol], cardIndex) # Null
              /\ findBestMove(state.current, fromCol, cardIndex) = Null

----------------------------------------------------------------------------
(* The won game *)

\* C37: a won state is terminal: in every reachable state with isWon true all
\* 10 tableau columns and the stock are empty, every MOVE and DEAL is rejected
\* and isGameStuck returns true
C37_WonIsTerminal ==
    state.current.isWon =>
        /\ \A col \in Cols : Len(state.current.tableau[col]) = 0
        /\ Len(state.current.stock) = 0
        /\ \A fromCol \in Cols, toCol \in Cols, cardIndex \in (-1)..1 :
              executeMove(state.current, fromCol, cardIndex, toCol, 1) = Null
        /\ dealFromStock(state.current, 1) = Null
        /\ isGameStuck(state.current)

\* the winning MOVE was accepted and the game is won
C37_Witness ==
    /\ trail.phase = 1
    /\ did.type = "MOVE"
    /\ ~before.isWon
    /\ state.current.isWon
    /\ Len(state.current.completed) = WinCount
    /\ isGameStuck(state.current)

----------------------------------------------------------------------------
(* What moveCards returns *)

\* C40: the boolean returned by moveCards(fromCol, cardIndex, toCol) reports
\* whether the move was valid: it is true exactly when the dispatched MOVE
\* changed the game state, and false when the engine rejected the move
C40_ReturnReportsValidity ==
    /\ (trail.phase = 1 /\ did.type = "MOVE") =>
            (Get(trail.returned) <=> state.current # before)
    /\ (trail.phase = 6 /\ did.type = "MOVE") =>
            /\ Get(trail.returned) <=> state.current # sessionBefore.current
            /\ ~Get(trail.returned)

----------------------------------------------------------------------------
(* The stock and the cards left in the tableau *)

----------------------------------------------------------------------------
(* The layout with no space for stacking *)

\* C39: when maxStackHeight - cardHeight <= 0 for a column of at least 2
\* cards, calculateSmartOverlap returns both offsets equal to the absolute
\* minimum of 2 and flags the result as needing the scroll fallback
C39_NoSpaceNeedsScroll ==
    (/\ layout # Null
     /\ Len(state.current.tableau[0]) >= 2
     /\ Get(layout).maxHeight - Get(layout).cardHeight <= 0)
        => /\ Get(layout).offsets.faceDownOffset = <<2, 1>>
           /\ Get(layout).offsets.faceUpOffset = <<2, 1>>
           /\ Get(layout).offsets.needsScroll

====
